---------------------------- MODULE Spec2Model ----------------------------
(***************************************************************************)
(* A model of the dmClock server-side scheduler, src/dmclock_server.h:     *)
(* RequestTag / tag_calc, ClientRec, the three views (IndIntruVector and   *)
(* the three IndIntruHeaps), do_add_request, do_next_request,              *)
(* pop_process_request, reduce_reservation_tags, the removals, do_clean    *)
(* and PullPriorityQueue::pull_request.                                    *)
(*                                                                         *)
(* Times and tags are doubles in the source.  Here they are integers on a  *)
(* time grid, and the rates of a ClientInfo are given by their inverses    *)
(* (reservation_inv, weight_inv, limit_inv; 0 = dimension not enforced).   *)
(* The two extreme doubles max_tag / min_tag keep their absorbing          *)
(* arithmetic (max_tag + x = max_tag, max_tag + max_tag = +inf).           *)
(***************************************************************************)
EXTENDS Integers, Sequences, FiniteSets, TLC

\* ------------------------------------------------------------------------
\* Bounds of the model
\* ------------------------------------------------------------------------

\* number of client ids (1..NClients)
NClients == 2

\* the clock runs over 0..MaxTime
MaxTime == 3

\* at most MaxTick add_request calls (tick counts them)
MaxTick == 3

\* at most MaxRemovals calls of remove_by_client / remove_by_req_filter
MaxRemovals == 1

\* ------------------------------------------------------------------------
\* Program constants
\* ------------------------------------------------------------------------

\* std::numeric_limits<double>::max()
max_tag == 1000000

\* std::numeric_limits<double>::lowest()
min_tag == 0 - max_tag

\* the double +infinity, reached only as max_tag + max_tag
PosInf == 2 * max_tag

\* the time sentinels of dmclock_recs.h: TimeZero is "unset", TimeMax is
\* "never" (+infinity)
TimeZero == 0

TimeMax == PosInf

\* the "unset" marker of lowest_prop_tag in do_add_request
NaN == 0 - (3 * max_tag)

Clients == 1 .. NClients

\* ------------------------------------------------------------------------
\* double arithmetic on the values the scheduler produces
\* ------------------------------------------------------------------------

\* a + b in double precision: the extreme tags absorb every finite operand
FAdd(a, b) ==
  IF a = PosInf \/ b = PosInf THEN PosInf
  ELSE IF a = max_tag /\ b = max_tag THEN PosInf
  ELSE IF a = max_tag \/ b = max_tag THEN max_tag
  ELSE IF a = min_tag \/ b = min_tag THEN min_tag
  ELSE a + b

\* a - b for a finite b
FSub(a, b) ==
  IF a = PosInf THEN PosInf
  ELSE IF a = max_tag THEN max_tag
  ELSE IF a = min_tag THEN min_tag
  ELSE a - b

Max(a, b) == IF a < b THEN b ELSE a

Min(a, b) == IF b < a THEN b ELSE a

\* ------------------------------------------------------------------------
\* ClientInfo, RequestTag
\* ------------------------------------------------------------------------

\* ClientInfo by its three inverses
ClientInfo(ri, wi, li) ==
  [reservation_inv |-> ri, weight_inv |-> wi, limit_inv |-> li]

\* tag_calc without the increment: a tag only follows the clock
tag_calc_no_increment(time, prev, increment, dist_req_val, extreme_is_high) ==
  IF increment = 0
  THEN (IF extreme_is_high THEN max_tag ELSE min_tag)
  ELSE Max(time, prev)

\* RequestTag::tag_calc
tag_calc(time, prev, increment, dist_req_val, extreme_is_high) ==
  IF increment = 0
  THEN (IF extreme_is_high THEN max_tag ELSE min_tag)
  ELSE LET inc == IF dist_req_val # 0 THEN increment * dist_req_val
                  ELSE increment
       IN Max(time, prev + inc)

\* RequestTag without the cost added to the reservation tag
RequestTag_no_cost(prev_tag, client, req_params, time, cost) ==
  [reservation |-> tag_calc(time, prev_tag.reservation,
                            client.reservation_inv, req_params.rho, TRUE),
   proportion  |-> tag_calc(time, prev_tag.proportion, client.weight_inv,
                            req_params.delta, TRUE),
   limit       |-> tag_calc(time, prev_tag.limit, client.limit_inv,
                            req_params.delta, FALSE),
   ready       |-> FALSE]

\* RequestTag(prev_tag, client, req_params, time, cost)
RequestTag(prev_tag, client, req_params, time, cost) ==
  [reservation |-> FAdd(cost, tag_calc(time, prev_tag.reservation,
                                       client.reservation_inv,
                                       req_params.rho, TRUE)),
   proportion  |-> tag_calc(time, prev_tag.proportion, client.weight_inv,
                            req_params.delta, TRUE),
   limit       |-> tag_calc(time, prev_tag.limit, client.limit_inv,
                            req_params.delta, FALSE),
   ready       |-> FALSE]

\* the assertion in the RequestTag constructors
RequestTagAssert(tag) ==
  tag.reservation < max_tag \/ tag.proportion < max_tag

\* RequestTag(0.0, 0.0, 0.0), the prev_tag of a new ClientRec
ZeroTag ==
  [reservation |-> 0, proportion |-> 0, limit |-> 0, ready |-> FALSE]

\* ------------------------------------------------------------------------
\* ClientReq, ClientRec
\* ------------------------------------------------------------------------

ClientReq(tag, client_id, request) ==
  [tag |-> tag, client_id |-> client_id, request |-> request]

\* ClientRec(client, info, current_tick)
ClientRec(client, info, current_tick) ==
  [client     |-> client,
   prev_tag   |-> ZeroTag,
   requests   |-> << >>,
   prop_delta |-> 0,
   info       |-> info,
   idle       |-> TRUE,
   last_tick  |-> current_tick]

has_request(rec) == Len(rec.requests) > 0

next_request(rec) == Head(rec.requests)


\* ------------------------------------------------------------------------
\* Orderings of the views
\* ------------------------------------------------------------------------

\* ClientCompare<tag_field, ready_opt, use_prop_delta>::operator()(n1, n2)
ClientCompare(tag_field, ready_opt, use_prop_delta, n1, n2) ==
  IF has_request(n1)
  THEN IF has_request(n2)
       THEN LET t1 == next_request(n1).tag
                t2 == next_request(n2).tag
            IN IF ready_opt = "ignore" \/ t1.ready = t2.ready
               THEN IF use_prop_delta
                    THEN FAdd(t1[tag_field], n1.prop_delta) <
                           FAdd(t2[tag_field], n2.prop_delta)
                    ELSE t1[tag_field] < t2[tag_field]
               ELSE IF ready_opt = "raises" THEN t1.ready ELSE t2.ready
       ELSE TRUE
  ELSE FALSE

\* the comparators the three heaps are instantiated with
HeapCompare(view, n1, n2) ==
  CASE view = "resv"  -> ClientCompare("reservation", "ignore", FALSE, n1, n2)
    [] view = "limit" -> ClientCompare("limit", "lowers", FALSE, n1, n2)
    [] view = "ready" -> ClientCompare("proportion", "raises", TRUE, n1, n2)

\* ClientCompareAtOnce, the reservation part (*resv_flag)
AtOnceResv(n1, n2) ==
  IF has_request(n1)
  THEN IF has_request(n2)
       THEN next_request(n1).tag.reservation < next_request(n2).tag.reservation
       ELSE TRUE
  ELSE FALSE

\* ClientCompareAtOnce, the proportion part (*ready_flag)
AtOnceReady(n1, n3) ==
  IF has_request(n1)
  THEN IF has_request(n3)
       THEN LET t1 == next_request(n1).tag
                t3 == next_request(n3).tag
            IN IF t1.ready = t3.ready
               THEN FAdd(t1.proportion, n1.prop_delta) <
                      FAdd(t3.proportion, n3.prop_delta)
               ELSE t1.ready
       ELSE TRUE
  ELSE FALSE

\* ClientCompareAtOnce, the limit part (*limit_flag)
AtOnceLimit(n1, n4) ==
  IF has_request(n1)
  THEN IF has_request(n4)
       THEN LET t1 == next_request(n1).tag
                t4 == next_request(n4).tag
            IN IF t1.ready = t4.ready THEN t1.limit < t4.limit ELSE t4.ready
       ELSE TRUE
  ELSE FALSE

AtOnce(view, n1, n2) ==
  CASE view = "resv"  -> AtOnceResv(n1, n2)
    [] view = "ready" -> AtOnceReady(n1, n2)
    [] view = "limit" -> AtOnceLimit(n1, n2)

\* ------------------------------------------------------------------------
\* IndIntruVector: data is the vector of client records (here: their ids),
\* resv / ready / limit are the 0-based cursors of the three minima
\* ------------------------------------------------------------------------

EmptyVec == [data |-> << >>, resv |-> 0, ready |-> 0, limit |-> 0]

\* the scan "for (i = 1; i < count; i++) if (cmp(data[i], data[top])) top = i"
RECURSIVE adjust_scan(_, _, _, _, _)
adjust_scan(view, recs, data, i, top) ==
  IF i >= Len(data) THEN top
  ELSE adjust_scan(view, recs, data, i + 1,
                   IF AtOnce(view, recs[data[i + 1]], recs[data[top + 1]])
                   THEN i ELSE top)

\* IndIntruVector::adjust_resv
adjust_resv(vec, recs) ==
  [vec EXCEPT !.resv = adjust_scan("resv", recs, vec.data, 1, 0)]

\* IndIntruVector::adjust_ready_limit
adjust_ready_limit(vec, recs) ==
  [vec EXCEPT !.ready = adjust_scan("ready", recs, vec.data, 1, 0),
              !.limit = adjust_scan("limit", recs, vec.data, 1, 0)]

\* IndIntruVector::adjust
adjust(vec, recs) ==
  [vec EXCEPT !.resv  = adjust_scan("resv", recs, vec.data, 1, 0),
              !.ready = adjust_scan("ready", recs, vec.data, 1, 0),
              !.limit = adjust_scan("limit", recs, vec.data, 1, 0)]

\* IndIntruVector::push
vec_push(vec, recs, item) ==
  adjust([vec EXCEPT !.data = Append(vec.data, item)], recs)

\* 0-based position of a client in a sequence of clients
index_of(data, item) == (CHOOSE i \in 1 .. Len(data) : data[i] = item) - 1

\* IndIntruVector::remove(index_t i): swap with the last, pop_back, adjust
vec_remove_at(vec, recs, i) ==
  LET n     == Len(vec.data)
      moved == [vec.data EXCEPT ![i + 1] = vec.data[n]]
  IN adjust([vec EXCEPT !.data = SubSeq(moved, 1, n - 1)], recs)

\* IndIntruVector::remove(const I& item)
vec_remove(vec, recs, item) ==
  vec_remove_at(vec, recs, index_of(vec.data, item))

\* IndIntruVector::top_resv / top_ready / top_limit
top_resv(vec) == vec.data[vec.resv + 1]

top_ready(vec) == vec.data[vec.ready + 1]

top_limit(vec) == vec.data[vec.limit + 1]

\* ------------------------------------------------------------------------
\* IndIntruHeap (indirect_intrusive_heap.h): a binary heap of client
\* records ordered by one comparator; h is the heap array, 0-based indices
\* ------------------------------------------------------------------------

swap(h, i, j) == [h EXCEPT ![i + 1] = h[j + 1], ![j + 1] = h[i + 1]]

RECURSIVE sift_up(_, _, _, _)
sift_up(view, recs, h, i) ==
  IF i = 0 THEN h
  ELSE LET pi == (i - 1) \div 2
       IN IF HeapCompare(view, recs[h[i + 1]], recs[h[pi + 1]])
          THEN sift_up(view, recs, swap(h, i, pi), pi)
          ELSE h

RECURSIVE sift_down(_, _, _, _)
sift_down(view, recs, h, i) ==
  LET li == 2 * i + 1
      ri == 2 * i + 2
      n  == Len(h)
      lt(a, b) == HeapCompare(view, recs[h[a + 1]], recs[h[b + 1]])
  IN IF li >= n THEN h
     ELSE IF lt(li, i)
          THEN IF ri < n /\ lt(ri, li)
               THEN sift_down(view, recs, swap(h, i, ri), ri)
               ELSE sift_down(view, recs, swap(h, i, li), li)
          ELSE IF ri < n /\ lt(ri, i)
               THEN sift_down(view, recs, swap(h, i, ri), ri)
               ELSE h

\* sift: up when the item precedes its parent, down otherwise
sift(view, recs, h, i) ==
  IF i = 0 THEN sift_down(view, recs, h, 0)
  ELSE IF HeapCompare(view, recs[h[i + 1]], recs[h[((i - 1) \div 2) + 1]])
       THEN sift_up(view, recs, h, i)
       ELSE sift_down(view, recs, h, i)

\* IndIntruHeap::push
heap_push(view, recs, h, item) ==
  sift_up(view, recs, Append(h, item), Len(h))

\* IndIntruHeap::promote (the key decreased)
promote(view, recs, h, item) == sift_up(view, recs, h, index_of(h, item))

\* IndIntruHeap::demote (the key increased)
demote(view, recs, h, item) == sift_down(view, recs, h, index_of(h, item))

\* IndIntruHeap::adjust (the key changed in an unknown direction)
heap_adjust(view, recs, h, item) == sift(view, recs, h, index_of(h, item))

\* IndIntruHeap::remove: swap with the last, pop_back, re-sift the moved item
heap_remove(view, recs, h, item) ==
  LET i     == index_of(h, item)
      n     == Len(h)
      moved == SubSeq([h EXCEPT ![i + 1] = h[n]], 1, n - 1)
  IN IF i < n - 1 THEN sift(view, recs, moved, i) ELSE moved


\* ------------------------------------------------------------------------
\* PriorityQueueBase: the state of one queue is a record
\*   client_info_f, allow_limit_break, use_heap,
\*   idle_age, erase_age, check_time              (constructor arguments)
\*   client_map        client id -> ClientRec (its domain: the known ids)
\*   cl_vec            the IndIntruVector          (use_heap = FALSE)
\*   resv_heap, limit_heap, ready_heap             (use_heap = TRUE)
\*   tick, clean_mark_points
\* ------------------------------------------------------------------------

\* the assertions of the constructor
constructor_assert(ages) ==
  ages.erase_age >= ages.idle_age /\ ages.check_time < ages.idle_age

\* PriorityQueueBase(client_info_f, idle_age, erase_age, check_time,
\*                   allow_limit_break, use_heap)
PriorityQueueBase(client_info_f, ages, allow_limit_break, use_heap) ==
  [client_info_f     |-> client_info_f,
   idle_age          |-> ages.idle_age,
   erase_age         |-> ages.erase_age,
   check_time        |-> ages.check_time,
   allow_limit_break |-> allow_limit_break,
   use_heap          |-> use_heap,
   client_map        |-> << >>,
   cl_vec            |-> EmptyVec,
   resv_heap         |-> << >>,
   limit_heap        |-> << >>,
   ready_heap        |-> << >>,
   tick              |-> 0,
   clean_mark_points |-> << >>]

\* the views after the records changed to recs and
\* resv_heap.adjust(c); limit_heap.adjust(c); ready_heap.adjust(c)
\* or cl_vec.adjust()
views_adjust(q, recs, c) ==
  IF q.use_heap
  THEN [q EXCEPT !.client_map = recs,
                 !.resv_heap  = heap_adjust("resv", recs, q.resv_heap, c),
                 !.limit_heap = heap_adjust("limit", recs, q.limit_heap, c),
                 !.ready_heap = heap_adjust("ready", recs, q.ready_heap, c)]
  ELSE [q EXCEPT !.client_map = recs,
                 !.cl_vec     = adjust(q.cl_vec, recs)]

\* a new client record enters the views and the map
views_push(q, recs, c) ==
  IF q.use_heap
  THEN [q EXCEPT !.client_map = recs,
                 !.resv_heap  = heap_push("resv", recs, q.resv_heap, c),
                 !.limit_heap = heap_push("limit", recs, q.limit_heap, c),
                 !.ready_heap = heap_push("ready", recs, q.ready_heap, c)]
  ELSE [q EXCEPT !.client_map = recs,
                 !.cl_vec     = vec_push(q.cl_vec, recs, c)]

\* delete_from_heaps
delete_from_heaps(q, c) ==
  LET recs == q.client_map
  IN IF q.use_heap
     THEN [q EXCEPT !.resv_heap  = heap_remove("resv", recs, q.resv_heap, c),
                    !.limit_heap = heap_remove("limit", recs, q.limit_heap, c),
                    !.ready_heap = heap_remove("ready", recs, q.ready_heap, c)]
     ELSE [q EXCEPT !.cl_vec = vec_remove(q.cl_vec, recs, c)]

\* resv_heap.empty() / cl_vec.empty()
views_empty(q) ==
  IF q.use_heap THEN Len(q.resv_heap) = 0 ELSE Len(q.cl_vec.data) = 0

\* the client on top of a view: heap.top() or cl_vec.top_xxx()
top(q, view) ==
  IF q.use_heap
  THEN CASE view = "resv"  -> q.resv_heap[1]
         [] view = "limit" -> q.limit_heap[1]
         [] view = "ready" -> q.ready_heap[1]
  ELSE CASE view = "resv"  -> top_resv(q.cl_vec)
         [] view = "limit" -> top_limit(q.cl_vec)
         [] view = "ready" -> top_ready(q.cl_vec)

\* the loop without its test of the idle flag: the lowest
\* proportion + prop_delta of any client with a request
lowest_prop_tag_any(recs) ==
  LET ps == { FAdd(next_request(recs[c]).tag.proportion, recs[c].prop_delta) :
                c \in { d \in DOMAIN recs : has_request(recs[d]) } }
  IN IF ps = {} THEN NaN ELSE CHOOSE p \in ps : \A x \in ps : p <= x

\* the loop of do_add_request over client_map: the lowest
\* proportion + prop_delta of a non-idle client with a request, else NaN
lowest_prop_tag(recs) ==
  LET ps == { FAdd(next_request(recs[c]).tag.proportion, recs[c].prop_delta) :
                c \in { d \in DOMAIN recs :
                          ~recs[d].idle /\ has_request(recs[d]) } }
  IN IF ps = {} THEN NaN ELSE CHOOSE p \in ps : \A x \in ps : p <= x

\* the ClientInfo do_add_request works with
info_of(q, client_id) ==
  IF client_id \in DOMAIN q.client_map
  THEN q.client_map[client_id].info
  ELSE q.client_info_f[client_id]

\* whether the assertion of the RequestTag built by do_add_request holds
add_request_assert(q, client_id, req_params, time, cost) ==
  LET prev == IF client_id \in DOMAIN q.client_map
              THEN q.client_map[client_id].prev_tag ELSE ZeroTag
  IN RequestTagAssert(RequestTag(prev, info_of(q, client_id),
                                 req_params, time, cost))

\* do_add_request
do_add_request(q, request, client_id, req_params, time, cost) ==
  LET tick1   == q.tick + 1
      q0      == [q EXCEPT !.tick = tick1]
      q1      == IF client_id \in DOMAIN q.client_map THEN q0
                 ELSE views_push(q0,
                        q.client_map @@
                          (client_id :> ClientRec(client_id,
                                                  q.client_info_f[client_id],
                                                  tick1)),
                        client_id)
      client  == q1.client_map[client_id]
      lowest  == lowest_prop_tag(q1.client_map)
      client2 == IF client.idle
                 THEN [client EXCEPT
                         !.prop_delta = IF lowest # NaN
                                        THEN FSub(lowest, time) ELSE @,
                         !.idle = FALSE]
                 ELSE client
      tag     == RequestTag(client2.prev_tag, client2.info, req_params,
                            time, cost)
      client3 == [client2 EXCEPT
                    !.requests  = Append(@, ClientReq(tag, client2.client,
                                                      request)),
                    !.prev_tag  = tag,
                    !.last_tick = tick1]
  IN views_adjust(q1, [q1.client_map EXCEPT ![client_id] = client3],
                  client_id)

\* pop_process_request, heap version: pops the front request of the top
\* of `view` and demotes the client in all three heaps
pop_process_request_heap(q, view) ==
  LET c    == top(q, view)
      recs == [q.client_map EXCEPT ![c].requests = Tail(@)]
  IN [q |-> [q EXCEPT !.client_map = recs,
                      !.resv_heap  = demote("resv", recs, q.resv_heap, c),
                      !.limit_heap = demote("limit", recs, q.limit_heap, c),
                      !.ready_heap = demote("ready", recs, q.ready_heap, c)],
      client  |-> c,
      request |-> next_request(q.client_map[c]).request]

\* pop_process_request, iiv version, taking the request at the back of the
\* queue (pop_back for pop_front)
pop_process_request_iiv_back(q, phase) ==
  LET c    == IF phase = "reservation" THEN top_resv(q.cl_vec)
              ELSE top_ready(q.cl_vec)
      reqs == q.client_map[c].requests
      recs == [q.client_map EXCEPT
                 ![c].requests = SubSeq(reqs, 1, Len(reqs) - 1)]
  IN [q |-> [q EXCEPT !.client_map = recs,
                      !.cl_vec     = adjust(q.cl_vec, recs)],
      client  |-> c,
      request |-> reqs[Len(reqs)].request]

\* pop_process_request, iiv version
pop_process_request_iiv(q, phase) ==
  LET c    == IF phase = "reservation" THEN top_resv(q.cl_vec)
              ELSE top_ready(q.cl_vec)
      recs == [q.client_map EXCEPT ![c].requests = Tail(@)]
  IN [q |-> [q EXCEPT !.client_map = recs,
                      !.cl_vec     = adjust(q.cl_vec, recs)],
      client  |-> c,
      request |-> next_request(q.client_map[c]).request]

\* reduce_reservation_tags that lowers the queued tags but not prev_tag
reduce_reservation_tags_queue_only(q, client_id) ==
  LET client == q.client_map[client_id]
      inv    == client.info.reservation_inv
      reqs   == [i \in 1 .. Len(client.requests) |->
                   [client.requests[i] EXCEPT
                      !.tag.reservation = FSub(@, inv)]]
      recs   == [q.client_map EXCEPT ![client_id].requests = reqs]
  IN IF q.use_heap
     THEN [q EXCEPT !.client_map = recs,
                    !.resv_heap  = promote("resv", recs, q.resv_heap,
                                           client_id)]
     ELSE [q EXCEPT !.client_map = recs,
                    !.cl_vec     = adjust_resv(q.cl_vec, recs)]

\* reduce_reservation_tags(ClientRec&)
reduce_reservation_tags(q, client_id) ==
  LET client == q.client_map[client_id]
      inv    == client.info.reservation_inv
      reqs   == [i \in 1 .. Len(client.requests) |->
                   [client.requests[i] EXCEPT
                      !.tag.reservation = FSub(@, inv)]]
      recs   == [q.client_map EXCEPT
                   ![client_id].requests = reqs,
                   ![client_id].prev_tag.reservation = FSub(@, inv)]
  IN IF q.use_heap
     THEN [q EXCEPT !.client_map = recs,
                    !.resv_heap  = promote("resv", recs, q.resv_heap,
                                           client_id)]
     ELSE [q EXCEPT !.client_map = recs,
                    !.cl_vec     = adjust_resv(q.cl_vec, recs)]

\* min_not_0_time
min_not_0_time(current, possible) ==
  IF possible = TimeZero THEN current ELSE Min(current, possible)

\* the while loop without its test of the limit tag: every front request
\* on top of the limit view becomes ready
RECURSIVE promote_ready_early(_, _)
promote_ready_early(q, now) ==
  LET l      == top(q, "limit")
      limits == q.client_map[l]
  IN IF has_request(limits) /\ ~next_request(limits).tag.ready
     THEN LET recs == [q.client_map EXCEPT
                         ![l].requests[1].tag.ready = TRUE]
          IN promote_ready_early(
               IF q.use_heap
               THEN [q EXCEPT
                       !.client_map = recs,
                       !.ready_heap = promote("ready", recs, q.ready_heap, l),
                       !.limit_heap = demote("limit", recs, q.limit_heap, l)]
               ELSE [q EXCEPT
                       !.client_map = recs,
                       !.cl_vec     = adjust_ready_limit(q.cl_vec, recs)],
               now)
     ELSE q

\* the while loop of do_next_request: requests on top of the limit view
\* whose limit has passed become ready
RECURSIVE promote_ready(_, _)
promote_ready(q, now) ==
  LET l      == top(q, "limit")
      limits == q.client_map[l]
  IN IF has_request(limits)
        /\ ~next_request(limits).tag.ready
        /\ next_request(limits).tag.limit <= now
     THEN LET recs == [q.client_map EXCEPT
                         ![l].requests[1].tag.ready = TRUE]
          IN promote_ready(
               IF q.use_heap
               THEN [q EXCEPT
                       !.client_map = recs,
                       !.ready_heap = promote("ready", recs, q.ready_heap, l),
                       !.limit_heap = demote("limit", recs, q.limit_heap, l)]
               ELSE [q EXCEPT
                       !.client_map = recs,
                       !.cl_vec     = adjust_ready_limit(q.cl_vec, recs)],
               now)
     ELSE q

NextReq(q, type, heap_id, when_ready, assert_ok) ==
  [q |-> q, type |-> type, heap_id |-> heap_id, when_ready |-> when_ready,
   assert_ok |-> assert_ok]

\* next_after_promotion without the limit break through the ready view
next_after_promotion_resv_break(q1, readys, r_top, l_top) ==
  LET call1 == IF has_request(r_top)
               THEN min_not_0_time(TimeMax,
                      next_request(r_top).tag.reservation)
               ELSE TimeMax
      call2 == IF has_request(l_top)
               THEN min_not_0_time(call1, next_request(l_top).tag.limit)
               ELSE call1
      ok    == ~has_request(l_top) \/ ~next_request(l_top).tag.ready
  IN IF has_request(readys)
        /\ next_request(readys).tag.ready
        /\ next_request(readys).tag.proportion < max_tag
     THEN NextReq(q1, "returning", "ready", 0, TRUE)
     ELSE IF q1.allow_limit_break /\ has_request(r_top)
             /\ next_request(r_top).tag.reservation < max_tag
     THEN NextReq(q1, "returning", "reservation", 0, TRUE)
     ELSE IF call2 < TimeMax
     THEN NextReq(q1, "future", "none", call2, ok)
     ELSE NextReq(q1, "none", "none", 0, ok)

\* do_next_request after the reservation test failed and the while loop
\* has run: q1 is the queue the loop leaves, readys, r_top and l_top the
\* records on top of its ready, reservation and limit views
next_after_promotion(q1, readys, r_top, l_top) ==
  LET call1 == IF has_request(r_top)
               THEN min_not_0_time(TimeMax,
                      next_request(r_top).tag.reservation)
               ELSE TimeMax
      call2 == IF has_request(l_top)
               THEN min_not_0_time(call1, next_request(l_top).tag.limit)
               ELSE call1
      ok    == ~has_request(l_top) \/ ~next_request(l_top).tag.ready
  IN IF has_request(readys)
        /\ next_request(readys).tag.ready
        /\ next_request(readys).tag.proportion < max_tag
     THEN NextReq(q1, "returning", "ready", 0, TRUE)
     ELSE IF q1.allow_limit_break /\ has_request(readys)
             /\ next_request(readys).tag.proportion < max_tag
     THEN NextReq(q1, "returning", "ready", 0, TRUE)
     ELSE IF q1.allow_limit_break /\ has_request(r_top)
             /\ next_request(r_top).tag.reservation < max_tag
     THEN NextReq(q1, "returning", "reservation", 0, TRUE)
     ELSE IF call2 < TimeMax
     THEN NextReq(q1, "future", "none", call2, ok)
     ELSE NextReq(q1, "none", "none", 0, ok)

\* the records on top of the three views of q1
next_of_tops(q1) ==
  next_after_promotion(q1, q1.client_map[top(q1, "ready")],
                       q1.client_map[top(q1, "resv")],
                       q1.client_map[top(q1, "limit")])

\* do_next_request with "reservation < now" for "reservation <= now"
do_next_request_strict(q, now) ==
  IF views_empty(q) THEN NextReq(q, "none", "none", 0, TRUE)
  ELSE
    LET reserv == q.client_map[top(q, "resv")]
    IN IF has_request(reserv) /\ next_request(reserv).tag.reservation < now
       THEN NextReq(q, "returning", "reservation", 0, TRUE)
       ELSE next_of_tops(promote_ready(q, now))

\* do_next_request(now); assert_ok tells whether assert(!next.tag.ready)
\* held where the decision passed it
do_next_request(q, now) ==
  IF views_empty(q) THEN NextReq(q, "none", "none", 0, TRUE)
  ELSE
    LET reserv == q.client_map[top(q, "resv")]
    IN IF has_request(reserv) /\ next_request(reserv).tag.reservation <= now
       THEN NextReq(q, "returning", "reservation", 0, TRUE)
       ELSE next_of_tops(promote_ready(q, now))

\* PullReq
PullReq(type, client, request, phase, when) ==
  [type |-> type, client |-> client, request |-> request, phase |-> phase,
   when |-> when]

\* pull_request, the case PhaseType::reservation: p is what
\* pop_process_request left
pull_reservation(p) ==
  [q |-> p.q, assert_ok |-> TRUE,
   result |-> PullReq("returning", p.client, p.request, "reservation", 0)]

\* pull_request, the case PhaseType::priority: the process function
\* calls reduce_reservation_tags
pull_priority(p) ==
  [q |-> reduce_reservation_tags(p.q, p.client), assert_ok |-> TRUE,
   result |-> PullReq("returning", p.client, p.request, "priority", 0)]

\* pull_request, the switch over next.type and next.heap_id
pull_switch(next) ==
  IF next.type = "none"
  THEN [q |-> next.q, assert_ok |-> next.assert_ok,
        result |-> PullReq("none", 0, 0, "none", 0)]
  ELSE IF next.type = "future"
  THEN [q |-> next.q, assert_ok |-> next.assert_ok,
        result |-> PullReq("future", 0, 0, "none", next.when_ready)]
  ELSE IF next.heap_id = "reservation"
  THEN pull_reservation(IF next.q.use_heap
                        THEN pop_process_request_heap(next.q, "resv")
                        ELSE pop_process_request_iiv(next.q, "reservation"))
  ELSE pull_priority(IF next.q.use_heap
                     THEN pop_process_request_heap(next.q, "ready")
                     ELSE pop_process_request_iiv(next.q, "priority"))

\* PullPriorityQueue::pull_request(now)
pull_request(q, now) == pull_switch(do_next_request(q, now))


\* ------------------------------------------------------------------------
\* Removals.  A filter is the set of request payloads it accepts.
\* ------------------------------------------------------------------------

\* the payloads of a sequence of ClientReq
payloads(reqs) == [i \in 1 .. Len(reqs) |-> reqs[i].request]

reverse(s) == [i \in 1 .. Len(s) |-> s[Len(s) + 1 - i]]

\* ClientRec::remove_by_req_filter_forwards: what stays, what goes to out
remove_by_req_filter_forwards(reqs, filter) ==
  [requests |-> SelectSeq(reqs, LAMBDA r : r.request \notin filter),
   out      |-> payloads(SelectSeq(reqs, LAMBDA r : r.request \in filter))]

\* ClientRec::remove_by_req_filter_backwards, for a queue that is not empty
remove_by_req_filter_backwards(reqs, filter) ==
  [requests |-> SelectSeq(reqs, LAMBDA r : r.request \notin filter),
   out      |-> reverse(payloads(
                  SelectSeq(reqs, LAMBDA r : r.request \in filter)))]

\* ClientRec::remove_by_req_filter_backwards starts at --requests.end():
\* undefined when the queue is empty
backwards_undefined(q) ==
  \E c \in DOMAIN q.client_map : ~has_request(q.client_map[c])

\* the clients of a set in the order of std::map
RECURSIVE in_order(_)
in_order(cs) ==
  IF cs = {} THEN << >>
  ELSE LET c == CHOOSE x \in cs : \A y \in cs : x <= y
       IN << c >> \o in_order(cs \ {c})

\* PriorityQueueBase::remove_by_req_filter, the loop over client_map from
\* the i-th client on (a client with an empty queue is passed over)
RECURSIVE remove_by_req_filter_from(_, _, _, _, _, _)
remove_by_req_filter_from(q, order, i, filter, out, visit_backwards) ==
  IF i > Len(order)
  THEN [q |-> q, out |-> out, any_removed |-> Len(out) > 0]
  ELSE
    LET c    == order[i]
        reqs == q.client_map[c].requests
        r    == IF visit_backwards
                THEN remove_by_req_filter_backwards(reqs, filter)
                ELSE remove_by_req_filter_forwards(reqs, filter)
        q1   == IF Len(r.out) > 0
                THEN views_adjust(q,
                       [q.client_map EXCEPT ![c].requests = r.requests], c)
                ELSE q
    IN remove_by_req_filter_from(q1, order, i + 1, filter, out \o r.out,
                                 visit_backwards)

\* PriorityQueueBase::remove_by_req_filter(filter, out, visit_backwards)
remove_by_req_filter(q, filter, visit_backwards) ==
  remove_by_req_filter_from(q, in_order(DOMAIN q.client_map), 1, filter,
                            << >>, visit_backwards)

\* remove_by_client without requests.clear()
remove_by_client_keeping(q, client) ==
  IF client \notin DOMAIN q.client_map THEN [q |-> q, out |-> << >>]
  ELSE [q   |-> views_adjust(q, q.client_map, client),
        out |-> payloads(q.client_map[client].requests)]

\* remove_by_client that counts a tick when the id is not in client_map
remove_by_client_counted(q, client) ==
  IF client \notin DOMAIN q.client_map
  THEN [q |-> [q EXCEPT !.tick = @ + 1], out |-> << >>]
  ELSE [q   |-> views_adjust(q,
                  [q.client_map EXCEPT ![client].requests = << >>], client),
        out |-> payloads(q.client_map[client].requests)]

\* PriorityQueueBase::remove_by_client(client, out)
remove_by_client(q, client) ==
  IF client \notin DOMAIN q.client_map THEN [q |-> q, out |-> << >>]
  ELSE [q   |-> views_adjust(q,
                  [q.client_map EXCEPT ![client].requests = << >>], client),
        out |-> payloads(q.client_map[client].requests)]

\* ------------------------------------------------------------------------
\* do_clean.  A mark point is <<time, tick>>.
\* ------------------------------------------------------------------------

\* the first loop of do_clean: pops the mark points that are erase_age old
RECURSIVE erase_marks(_, _, _, _)
erase_marks(points, now, erase_age, erase_point) ==
  IF points[1][1] <= now - erase_age
  THEN erase_marks(Tail(points), now, erase_age, points[1][2])
  ELSE [points |-> points, erase_point |-> erase_point]

\* the second loop of do_clean: the last mark point that is idle_age old
RECURSIVE idle_mark(_, _, _, _, _)
idle_mark(points, now, idle_age, i, idle_point) ==
  IF i > Len(points) THEN idle_point
  ELSE IF points[i][1] <= now - idle_age
       THEN idle_mark(points, now, idle_age, i + 1, points[i][2])
       ELSE idle_point

\* the mark points after this run of do_clean, and the two points it uses
clean_points(q, now) ==
  LET e == erase_marks(Append(q.clean_mark_points, << now, q.tick >>), now,
                       q.erase_age, 0)
  IN [points      |-> e.points,
      erase_point |-> e.erase_point,
      idle_point  |-> idle_mark(e.points, now, q.idle_age, 1, 0)]

\* the clients this run of do_clean erases
clean_erased(q, now) ==
  LET p == clean_points(q, now)
  IN { c \in DOMAIN q.client_map :
         p.erase_point # 0 /\ q.client_map[c].last_tick <= p.erase_point }

\* the clients this run of do_clean marks idle
clean_idled(q, now) ==
  LET p == clean_points(q, now)
  IN { c \in DOMAIN q.client_map \ clean_erased(q, now) :
         p.idle_point # 0 /\ q.client_map[c].last_tick <= p.idle_point }

\* the loop of do_clean over client_map from the i-th client on
RECURSIVE clean_from(_, _, _, _, _)
clean_from(q, order, i, erased, idled) ==
  IF i > Len(order) THEN q
  ELSE
    LET c == order[i]
    IN IF c \in erased
       THEN LET q1 == delete_from_heaps(q, c)
            IN clean_from(
                 [q1 EXCEPT !.client_map =
                    [d \in DOMAIN q.client_map \ {c} |-> q.client_map[d]]],
                 order, i + 1, erased, idled)
       ELSE IF c \in idled
       THEN clean_from([q EXCEPT !.client_map[c].idle = TRUE],
                       order, i + 1, erased, idled)
       ELSE clean_from(q, order, i + 1, erased, idled)

\* do_clean, with `now` the time it read before it took data_mtx
do_clean(q, now) ==
  clean_from([q EXCEPT !.clean_mark_points = clean_points(q, now).points],
             in_order(DOMAIN q.client_map), 1,
             clean_erased(q, now), clean_idled(q, now))


\* ------------------------------------------------------------------------
\* PushPriorityQueue.  The record of the base class and
\*   finishing          the atomic flag of the base class
\*   can_handle_f       what can_handle_f() answers when it is called
\*   sched_ahead_when   the target of the timer thread, TimeZero = none
\*   sched_ahead_thd    where the thread run_sched_ahead is:
\*                        "loop"        at the test of while (!finishing)
\*                        "wait"        about to call sched_ahead_cv.wait(l)
\*                        "waiting"     blocked in sched_ahead_cv.wait(l)
\*                        "timed"       at the test of the inner while
\*                        "wait_for"    about to call wait_for
\*                        "waiting_for" blocked in wait_for
\*                        "unlocked"    after l.unlock()
\*                        "exited"      returned
\*   destructor         where ~PushPriorityQueue is: "none", "finishing"
\*                      (flag set), "notified", "joined"
\* ------------------------------------------------------------------------

\* PushPriorityQueue(client_info_f, can_handle_f, handle_f, ...): the
\* constructor starts the thread, which takes sched_ahead_mtx
PushPriorityQueue(client_info_f, ages, allow_limit_break, use_heap) ==
  PriorityQueueBase(client_info_f, ages, allow_limit_break, use_heap) @@
  [finishing        |-> FALSE,
   can_handle_f     |-> TRUE,
   sched_ahead_when |-> TimeZero,
   sched_ahead_thd  |-> "loop",
   destructor       |-> "none"]

\* the thread run_sched_ahead owns sched_ahead_mtx
sched_ahead_mtx_held(q) ==
  q.sched_ahead_thd \in {"loop", "wait", "timed", "wait_for"}

\* sched_ahead_cv.notify_one(): a thread blocked in wait or wait_for
\* returns from it; with no thread blocked the notification is lost
notify_one(q) ==
  IF q.sched_ahead_thd = "waiting"
  THEN [q EXCEPT !.sched_ahead_thd = "loop"]
  ELSE IF q.sched_ahead_thd = "waiting_for"
  THEN [q EXCEPT !.sched_ahead_thd = "timed"]
  ELSE q

\* sched_at(when) without sched_ahead_cv.notify_one()
sched_at_silent(q, when) ==
  IF TimeZero = q.sched_ahead_when \/ when < q.sched_ahead_when
  THEN [q EXCEPT !.sched_ahead_when = when]
  ELSE q

\* PushPriorityQueue::sched_at(when)
sched_at(q, when) ==
  IF TimeZero = q.sched_ahead_when \/ when < q.sched_ahead_when
  THEN notify_one([q EXCEPT !.sched_ahead_when = when])
  ELSE q

\* next_request(now) without the test of can_handle_f
next_request_now_unchecked(q, now) == do_next_request(q, now)

\* PushPriorityQueue::next_request(now)
next_request_now(q, now) ==
  IF ~q.can_handle_f THEN NextReq(q, "none", "none", 0, TRUE)
  ELSE do_next_request(q, now)

\* what a call of schedule_request did: the queue it leaves, the calls of
\* handle_f it made, whether it called sched_at, whether the assertion of
\* do_next_request held
Scheduled(q, handled, timed, assert_ok) ==
  [q |-> q, handled |-> handled, timed |-> timed, assert_ok |-> assert_ok]

\* submit_top_request and the call handle_f(client, request, phase) in it
submit_top_request(q, view, phase) ==
  IF q.use_heap THEN pop_process_request_heap(q, view)
  ELSE pop_process_request_iiv(q, phase)

\* PushPriorityQueue::submit_request(heap_id)
submit_request(q, heap_id) ==
  IF heap_id = "reservation"
  THEN LET p == submit_top_request(q, "resv", "reservation")
       IN Scheduled(p.q,
                    << [client |-> p.client, request |-> p.request,
                        phase |-> "reservation"] >>, FALSE, TRUE)
  ELSE LET p == submit_top_request(q, "ready", "priority")
       IN Scheduled(reduce_reservation_tags(p.q, p.client),
                    << [client |-> p.client, request |-> p.request,
                        phase |-> "priority"] >>, FALSE, TRUE)

\* schedule_request, the switch over next_req.type
schedule_switch(next) ==
  IF next.type = "none"
  THEN Scheduled(next.q, << >>, FALSE, next.assert_ok)
  ELSE IF next.type = "future"
  THEN Scheduled(sched_at(next.q, next.when_ready), << >>, TRUE,
                 next.assert_ok)
  ELSE submit_request(next.q, next.heap_id)

\* PushPriorityQueue::schedule_request() at get_time() = now
schedule_request(q, now) == schedule_switch(next_request_now(q, now))


\* ------------------------------------------------------------------------
\* The state machine: one PullPriorityQueue and its callers
\* ------------------------------------------------------------------------

VARIABLES
  q,          \* the queue
  twin,       \* a queue built with use_heap = false, given the same calls
  now,        \* the clock (get_time / steady_clock)
  clean_now,  \* the time do_clean read before it waits for data_mtx
  failed,     \* "none", or how the process ended: "assert" (do_next_request),
              \* "assert_tag" (RequestTag), "undefined" (do_clean),
              \* "undefined_end" (--end() of an empty deque)
  res,        \* the last call and what it returned
  tres,       \* what the last pull_request of twin returned
  enq,        \* per client: the payloads given to add_request, in order
  out,        \* per client: the dispatches, in order
  removed,    \* per client: payloads taken away by a removal or by do_clean
  born,       \* per client: time and tick at which its record was created
  last_add,   \* per client: the time of its last add_request
  stamps,     \* per client: the times of its dispatches, where recorded
  removals,   \* the number of removal calls the run still makes
  horizon     \* the time the run ends at

vars == << q, twin, now, clean_now, failed, res, tres, enq, out, removed,
           born, last_add, stamps, removals, horizon >>

\* clean_now when no run of do_clean is under way
NoTime == 0 - 1

\* the payload of a request is the tick of its add_request
Requests == 1 .. MaxTick

\* the client_info_f functions the model is run with
ReservationProfile == << ClientInfo(2, 0, 0), ClientInfo(2, 1, 0) >>

LimitProfile == << ClientInfo(0, 1, 1), ClientInfo(1, 2, 3) >>

Profiles == { ReservationProfile, LimitProfile }

\* idle_age, erase_age, check_time of the convenience constructors
\* (10, 15 and 6 minutes): no run of do_clean within the clock's range
LongAges == [idle_age |-> 10, erase_age |-> 15, check_time |-> 6]

\* ages short enough for do_clean to mark idle and to erase
ShortAges == [idle_age |-> 2, erase_age |-> 3, check_time |-> 1]

\* the constructor arguments the model is run with, the number of removal
\* calls made in the run and the time the run ends at: removals are made
\* where do_clean does not run; where do_clean runs no removal is made and
\* the run lasts until the first mark point is past erase_age
Setups ==
  [profile : Profiles, ages : {LongAges}, allow_limit_break : {FALSE},
   use_heap : BOOLEAN, removals : {MaxRemovals}, horizon : {MaxTime}]
  \cup
  [profile : {LimitProfile}, ages : {LongAges}, allow_limit_break : {TRUE},
   use_heap : {FALSE}, removals : {MaxRemovals}, horizon : {MaxTime}]
  \cup
  [profile : {LimitProfile}, ages : {ShortAges}, allow_limit_break : {FALSE},
   use_heap : {FALSE}, removals : {MaxRemovals - 1},
   horizon : {MaxTime + 1}]

\* client_info_f of a profile, for every client id
client_info_of(profile) ==
  [c \in Clients |-> profile[((c - 1) % Len(profile)) + 1]]

\* the (req_params, cost) arguments add_request is called with
Inputs ==
  { [params |-> [delta |-> 0, rho |-> 0], cost |-> 0] }

\* the filters remove_by_req_filter is called with
Filters == { { r \in Requests : r % 2 = 1 } }

NoResult == PullReq("none", 0, 0, "none", 0)

\* res after a step that is no call of the queue's interface
NoCall == [op |-> "none"]

Init ==
  /\ \E s \in Setups :
       /\ constructor_assert(s.ages)
       /\ q = PriorityQueueBase(client_info_of(s.profile), s.ages,
                                s.allow_limit_break, s.use_heap)
       /\ twin = PriorityQueueBase(client_info_of(s.profile), s.ages,
                                   s.allow_limit_break, FALSE)
       /\ removals = s.removals
       /\ horizon = s.horizon
  /\ now = 0
  /\ clean_now = NoTime
  /\ failed = "none"
  /\ res = NoCall
  /\ tres = NoResult
  /\ enq = [c \in Clients |-> << >>]
  /\ out = [c \in Clients |-> << >>]
  /\ removed = [c \in Clients |-> {}]
  /\ born = [c \in Clients |-> [time |-> 0, tick |-> 0]]
  /\ last_add = [c \in Clients |-> NoTime]
  /\ stamps = [c \in Clients |-> << >>]

\* the process is gone: an assertion failed, or undefined behaviour hit
Abort(how) ==
  /\ failed' = how
  /\ UNCHANGED << q, twin, now, clean_now, res, tres, enq, out, removed, born,
                  last_add, stamps, removals, horizon >>

\* a client with a request in its queue
pending(qq, c) == c \in DOMAIN qq.client_map /\ has_request(qq.client_map[c])

\* the tag of the request at the front of the queue of c
front(qq, c) == next_request(qq.client_map[c]).tag

\* the time at which RunEvery calls do_clean next: check_time after the
\* last call
clean_due ==
  IF clean_now # NoTime THEN clean_now + q.check_time
  ELSE IF Len(q.clean_mark_points) = 0 THEN q.check_time
  ELSE q.clean_mark_points[Len(q.clean_mark_points)][1] + q.check_time

\* RunEvery's thread is not delayed: when a call of do_clean is due, it
\* reads the clock before any other step at that time.  The read commutes
\* with every call on the queue (it touches no shared data), so this leaves
\* out no outcome; the rest of do_clean, under data_mtx, is not ordered.
clean_pending == clean_now = NoTime /\ now >= clean_due

running == failed = "none" /\ ~clean_pending

\* the clock advances; a call of do_clean that waits for data_mtx gets it
\* before the next call is due
Tick ==
  /\ running
  /\ now < horizon
  /\ now + 1 <= clean_due
  /\ now' = now + 1
  /\ res' = NoCall
  /\ UNCHANGED << q, twin, clean_now, failed, tres, enq, out, removed, born,
                  last_add, stamps, removals, horizon >>

\* PullPriorityQueue::add_request(request, client_id, req_params, time, cost)
\* with time = get_time()
AddRequest(c, in) ==
  /\ running
  /\ q.tick < MaxTick
  /\ \E stop \in IF add_request_assert(q, c, in.params, now, in.cost)
                 THEN {FALSE} ELSE BOOLEAN :
       IF stop THEN Abort("assert_tag")
       ELSE
         /\ q' = do_add_request(q, q.tick + 1, c, in.params, now, in.cost)
         /\ twin' = IF q.use_heap
                    THEN do_add_request(twin, q.tick + 1, c, in.params, now,
                                        in.cost)
                    ELSE q'
         /\ res' = [op |-> "add", client |-> c, request |-> q.tick + 1]
         /\ enq' = [enq EXCEPT ![c] = Append(@, q.tick + 1)]
         /\ born' = IF c \in DOMAIN q.client_map THEN born
                    ELSE [born EXCEPT ![c] = [time |-> now,
                                              tick |-> q.tick + 1]]
         /\ last_add' = [last_add EXCEPT ![c] = now]
         /\ UNCHANGED << now, clean_now, failed, tres, out, removed, stamps,
                         removals, horizon >>

\* PullPriorityQueue::pull_request() at get_time(), but for the record
\* of the dispatch time
pull_step ==
  /\ running
  /\ \E p \in {pull_request(q, now)}, tp \in {pull_request(twin, now)} :
       LET r == p.result
       IN \E stop \in IF p.assert_ok THEN {FALSE} ELSE BOOLEAN :
          IF stop THEN Abort("assert")
          ELSE
            /\ q' = p.q
            /\ twin' = IF q.use_heap THEN tp.q ELSE p.q
            /\ tres' = IF q.use_heap THEN tp.result ELSE p.result
            /\ res' = [op |-> "pull", result |-> r,
                       assert_ok |-> p.assert_ok,
                       tag |-> IF r.type = "returning"
                               THEN next_request(
                                      do_next_request(q, now)
                                        .q.client_map[r.client]).tag
                               ELSE ZeroTag]
            /\ out' = IF r.type = "returning"
                      THEN [out EXCEPT ![r.client] =
                              Append(@, [request |-> r.request,
                                         phase   |-> r.phase])]
                      ELSE out
            /\ UNCHANGED << now, clean_now, failed, enq, removed, born,
                            last_add, removals, horizon >>

\* PullPriorityQueue::pull_request() at get_time()
PullRequest == pull_step /\ UNCHANGED stamps

\* the same call, the time of a dispatch recorded
PullStamped ==
  /\ pull_step
  /\ stamps' = IF failed' = "none" /\ res'.result.type = "returning"
               THEN [stamps EXCEPT ![res'.result.client] = Append(@, now)]
               ELSE stamps

\* PriorityQueueBase::remove_by_client(client, out)
RemoveByClient(c) ==
  /\ running
  /\ removals > 0
  /\ removals' = removals - 1
  /\ LET r == remove_by_client(q, c)
     IN /\ q' = r.q
        /\ twin' = IF q.use_heap THEN remove_by_client(twin, c).q ELSE r.q
        /\ res' = [op |-> "remove_by_client", client |-> c, out |-> r.out]
        /\ removed' = [removed EXCEPT
                         ![c] = @ \cup { r.out[i] : i \in 1 .. Len(r.out) }]
  /\ UNCHANGED << now, clean_now, failed, tres, enq, out, born, last_add,
                  stamps, horizon >>

\* PriorityQueueBase::remove_by_req_filter(filter, out, visit_backwards)
RemoveByReqFilter(filter, visit_backwards) ==
  /\ running
  /\ removals > 0
  /\ \E stop \in IF visit_backwards /\ backwards_undefined(q)
                 THEN BOOLEAN ELSE {FALSE} :
       IF stop THEN Abort("undefined_end")
       ELSE
         LET r == remove_by_req_filter(q, filter, visit_backwards)
         IN /\ q' = r.q
            /\ removals' = removals - 1
            /\ twin' = IF q.use_heap
                       THEN remove_by_req_filter(twin, filter,
                                                 visit_backwards).q
                       ELSE r.q
            /\ res' = [op |-> "remove_by_req_filter", filter |-> filter,
                       visit_backwards |-> visit_backwards, out |-> r.out,
                       any_removed |-> r.any_removed]
            /\ removed' =
                 [c \in Clients |->
                    IF c \in DOMAIN q.client_map
                    THEN removed[c] \cup
                           { x \in filter :
                               \E i \in 1 .. Len(q.client_map[c].requests) :
                                 q.client_map[c].requests[i].request = x }
                    ELSE removed[c]]
            /\ UNCHANGED << now, clean_now, failed, tres, enq, out, born,
                            last_add, stamps, horizon >>

\* do_clean, its first statement: now = steady_clock::now(), before the
\* lock is taken; RunEvery calls do_clean every check_time
CleanRead ==
  /\ failed = "none"
  /\ clean_pending
  /\ clean_now' = now
  /\ UNCHANGED << q, twin, now, failed, res, tres, enq, out, removed, born,
                  last_add, stamps, removals, horizon >>

\* do_clean, the rest, under data_mtx.  delete_from_heaps(i2->second) reads
\* the map node that client_map.erase(i2) has just freed.
CleanRun ==
  /\ running
  /\ clean_now # NoTime
  /\ \E stop \in IF clean_erased(q, clean_now) # {}
                 THEN BOOLEAN ELSE {FALSE} :
       IF stop THEN Abort("undefined")
       ELSE
         /\ q' = do_clean(q, clean_now)
         /\ twin' = IF q.use_heap THEN do_clean(twin, clean_now) ELSE q'
         /\ clean_now' = NoTime
         /\ res' = [op |-> "clean", now |-> clean_now,
                    erased |-> clean_erased(q, clean_now),
                    idled  |-> clean_idled(q, clean_now)]
         /\ removed' =
              [c \in Clients |->
                 IF c \in clean_erased(q, clean_now)
                 THEN removed[c] \cup
                        { q.client_map[c].requests[i].request :
                            i \in 1 .. Len(q.client_map[c].requests) }
                 ELSE removed[c]]
         /\ UNCHANGED << now, failed, tres, enq, out, born, last_add, stamps,
                         removals, horizon >>

Next ==
  \/ Tick
  \/ \E c \in Clients, in \in Inputs : AddRequest(c, in)
  \/ PullRequest
  \/ \E c \in Clients : RemoveByClient(c)
  \/ \E filter \in Filters, b \in BOOLEAN : RemoveByReqFilter(filter, b)
  \/ CleanRead
  \/ CleanRun

Spec == Init /\ [][Next]_vars

\* the runs without limit break of the clients with a limit, the time of
\* every dispatch recorded
InitWindow ==
  /\ Init
  /\ ~q.allow_limit_break
  /\ q.client_info_f = client_info_of(LimitProfile)

NextWindow ==
  \/ Tick
  \/ \E c \in Clients, in \in Inputs : AddRequest(c, in)
  \/ PullStamped
  \/ \E c \in Clients : RemoveByClient(c)
  \/ \E filter \in Filters, b \in BOOLEAN : RemoveByReqFilter(filter, b)
  \/ CleanRead
  \/ CleanRun

SpecWindow == InitWindow /\ [][NextWindow]_vars

\* the ClientInfo of the single client of the runs under sustained demand
FloorInfos == { ClientInfo(2, 0, 0), ClientInfo(2, 1, 0), ClientInfo(1, 2, 3) }

\* the (req_params, cost) of a client served by this server alone
OwnInput == [params |-> [delta |-> 0, rho |-> 0], cost |-> 0]

\* a single client, no limit break, no removal, do_clean out of range
InitFloor ==
  /\ \E info \in FloorInfos, uh \in BOOLEAN :
       /\ q = PriorityQueueBase([c \in Clients |-> info], LongAges, FALSE, uh)
       /\ twin = PriorityQueueBase([c \in Clients |-> info], LongAges, FALSE,
                                   FALSE)
  /\ removals = 0
  /\ horizon = MaxTime
  /\ now = 0
  /\ clean_now = NoTime
  /\ failed = "none"
  /\ res = NoCall
  /\ tres = NoResult
  /\ enq = [c \in Clients |-> << >>]
  /\ out = [c \in Clients |-> << >>]
  /\ removed = [c \in Clients |-> {}]
  /\ born = [c \in Clients |-> [time |-> 0, tick |-> 0]]
  /\ last_add = [c \in Clients |-> NoTime]
  /\ stamps = [c \in Clients |-> << >>]

\* the caller has pulled at this time until nothing more was handed out
pulled_out == res.op = "pull" /\ res.result.type # "returning"

\* the clock advances under sustained demand: the client has a request
\* pending and the caller has pulled all that was due
FloorTick == pending(q, 1) /\ pulled_out /\ Tick

\* the clock advances after the process has ended
Elapse ==
  /\ failed # "none"
  /\ now < horizon
  /\ now' = now + 1
  /\ UNCHANGED << q, twin, clean_now, failed, res, tres, enq, out, removed,
                  born, last_add, stamps, removals, horizon >>

NextFloor ==
  \/ FloorTick
  \/ Elapse
  \/ AddRequest(1, OwnInput)
  \/ PullRequest

SpecFloor == InitFloor /\ [][NextFloor]_vars


\* ------------------------------------------------------------------------
\* The state machine of one PushPriorityQueue: its callers, its timer
\* thread run_sched_ahead and its destructor.  out is what handle_f was
\* called with.
\* ------------------------------------------------------------------------

\* the constructor arguments the push queue is run with
PushSetups ==
  [profile : Profiles, ages : {LongAges}, allow_limit_break : {FALSE},
   use_heap : {FALSE}]

InitPush ==
  /\ \E s \in PushSetups :
       /\ constructor_assert(s.ages)
       /\ q = PushPriorityQueue(client_info_of(s.profile), s.ages,
                                s.allow_limit_break, s.use_heap)
       /\ twin = PriorityQueueBase(client_info_of(s.profile), s.ages,
                                   s.allow_limit_break, FALSE)
  /\ removals = 0
  /\ horizon = MaxTime
  /\ now = 0
  /\ clean_now = NoTime
  /\ failed = "none"
  /\ res = NoCall
  /\ tres = NoResult
  /\ enq = [c \in Clients |-> << >>]
  /\ out = [c \in Clients |-> << >>]
  /\ removed = [c \in Clients |-> {}]
  /\ born = [c \in Clients |-> [time |-> 0, tick |-> 0]]
  /\ last_add = [c \in Clients |-> NoTime]
  /\ stamps = [c \in Clients |-> << >>]

\* out after the calls of handle_f in `handled`
handle_f(handled) ==
  IF Len(handled) = 0 THEN out
  ELSE [out EXCEPT ![handled[1].client] =
          Append(@, [request |-> handled[1].request,
                     phase   |-> handled[1].phase])]

\* a call of schedule_request that did s, made in the call `op` when
\* can_handle_f answered can_handle: sched_at waits for sched_ahead_mtx
\* while run_sched_ahead owns it
schedule_step(s, op, can_handle) ==
  /\ s.timed => ~sched_ahead_mtx_held(q)
  /\ \E stop \in IF s.assert_ok THEN {FALSE} ELSE BOOLEAN :
       IF stop THEN Abort("assert")
       ELSE
         /\ q' = IF op = "run_sched_ahead"
                 THEN [s.q EXCEPT !.sched_ahead_thd = "loop"]
                 ELSE s.q
         /\ out' = handle_f(s.handled)
         /\ res' = [op |-> op, can_handle |-> can_handle,
                    handled |-> s.handled, timed |-> s.timed]
         /\ UNCHANGED << twin, now, clean_now, failed, tres, removed, stamps,
                         removals, horizon >>

\* PushPriorityQueue::add_request(request, client_id, req_params, time,
\* cost) with time = get_time()
PushAddRequest(c, in) ==
  /\ running
  /\ q.destructor = "none"
  /\ q.tick < MaxTick
  /\ add_request_assert(q, c, in.params, now, in.cost)
  /\ \E s \in {schedule_request(
                   do_add_request(q, q.tick + 1, c, in.params, now, in.cost),
                   now)} :
       schedule_step(s, "add_request", q.can_handle_f)
  /\ enq' = [enq EXCEPT ![c] = Append(@, q.tick + 1)]
  /\ born' = IF c \in DOMAIN q.client_map THEN born
             ELSE [born EXCEPT ![c] = [time |-> now, tick |-> q.tick + 1]]
  /\ last_add' = [last_add EXCEPT ![c] = now]

\* PushPriorityQueue::request_completed()
RequestCompleted ==
  /\ running
  /\ q.destructor = "none"
  /\ \E s \in {schedule_request(q, now)} :
       schedule_step(s, "request_completed", q.can_handle_f)
  /\ UNCHANGED << enq, born, last_add >>

\* the server becomes able, or unable, to take a request
CanHandle ==
  /\ running
  /\ q.destructor = "none"
  /\ q' = [q EXCEPT !.can_handle_f = ~@]
  /\ res' = NoCall
  /\ UNCHANGED << twin, now, clean_now, failed, tres, enq, out, removed, born,
                  last_add, stamps, removals, horizon >>

\* a step of run_sched_ahead that calls nothing of the queue
thread_step(thd, when) ==
  /\ q' = [q EXCEPT !.sched_ahead_thd = thd, !.sched_ahead_when = when]
  /\ res' = NoCall
  /\ UNCHANGED << twin, now, clean_now, failed, tres, enq, out, removed, born,
                  last_add, stamps, removals, horizon >>

\* run_sched_ahead: while (!finishing) { if (TimeZero == sched_ahead_when)
RunLoop ==
  /\ running
  /\ q.sched_ahead_thd = "loop"
  /\ thread_step(IF q.finishing THEN "exited"
                 ELSE IF TimeZero = q.sched_ahead_when THEN "wait"
                 ELSE "timed",
                 q.sched_ahead_when)

\* run_sched_ahead: sched_ahead_cv.wait(l) gives up the mutex and blocks
RunWait ==
  /\ running
  /\ q.sched_ahead_thd = "wait"
  /\ thread_step("waiting", q.sched_ahead_when)

\* run_sched_ahead: the test of the inner while and, when it fails,
\* sched_ahead_when = TimeZero; if (finishing) return; l.unlock()
RunTimed ==
  /\ running
  /\ q.sched_ahead_thd = "timed"
  /\ IF ~q.finishing /\ now < q.sched_ahead_when
     THEN thread_step("wait_for", q.sched_ahead_when)
     ELSE thread_step(IF q.finishing THEN "exited" ELSE "unlocked", TimeZero)

\* run_sched_ahead: sched_ahead_cv.wait_for(l, microseconds) gives up the
\* mutex and blocks
RunWaitFor ==
  /\ running
  /\ q.sched_ahead_thd = "wait_for"
  /\ thread_step("waiting_for", q.sched_ahead_when)

\* run_sched_ahead: wait_for returns because its time is over
RunTimeout ==
  /\ running
  /\ q.sched_ahead_thd = "waiting_for"
  /\ now >= q.sched_ahead_when
  /\ thread_step("timed", q.sched_ahead_when)

\* run_sched_ahead: if (!finishing) { DataGuard g(data_mtx);
\* schedule_request(); } l.lock()
RunSchedule ==
  /\ running
  /\ q.sched_ahead_thd = "unlocked"
  /\ IF q.finishing THEN thread_step("loop", q.sched_ahead_when)
     ELSE /\ \E s \in {schedule_request(q, now)} :
               schedule_step(s, "run_sched_ahead", q.can_handle_f)
          /\ UNCHANGED << enq, born, last_add >>

\* a step of ~PushPriorityQueue
destructor_step(q1) ==
  /\ q' = q1
  /\ res' = NoCall
  /\ UNCHANGED << twin, now, clean_now, failed, tres, enq, out, removed, born,
                  last_add, stamps, removals, horizon >>

\* ~PushPriorityQueue: this->finishing = true
DestructorFinishing ==
  /\ running
  /\ q.destructor = "none"
  /\ destructor_step([q EXCEPT !.finishing = TRUE,
                               !.destructor = "finishing"])

\* ~PushPriorityQueue: sched_ahead_cv.notify_one()
DestructorNotify ==
  /\ running
  /\ q.destructor = "finishing"
  /\ destructor_step([notify_one(q) EXCEPT !.destructor = "notified"])

\* ~PushPriorityQueue: sched_ahead_thd.join() returns
DestructorJoin ==
  /\ running
  /\ q.destructor = "notified"
  /\ q.sched_ahead_thd = "exited"
  /\ destructor_step([q EXCEPT !.destructor = "joined"])

\* the steps of the thread run_sched_ahead
RunSchedAhead ==
  \/ RunLoop
  \/ RunWait
  \/ RunTimed
  \/ RunWaitFor
  \/ RunTimeout
  \/ RunSchedule

NextPush ==
  \/ Tick
  \/ \E c \in Clients, in \in Inputs : PushAddRequest(c, in)
  \/ RequestCompleted
  \/ CanHandle
  \/ RunSchedAhead
  \/ DestructorFinishing
  \/ DestructorNotify
  \/ DestructorJoin

SpecPush == InitPush /\ [][NextPush]_vars


\* the last time at which the callers of the push queue make a call
CallsUntil == 1

\* the callers of the push queue still make calls
calling == now <= CallsUntil

\* the push queue with callers that fall silent after CallsUntil and are
\* not destroying it: from then on only the clock and run_sched_ahead
\* take steps.  The clock advances and the thread is scheduled fairly.
NextWake ==
  \/ Tick
  \/ \E c \in Clients, in \in Inputs : calling /\ PushAddRequest(c, in)
  \/ calling /\ RequestCompleted
  \/ calling /\ CanHandle
  \/ RunSchedAhead

\* the thread run_sched_ahead is scheduled: none of its steps stays enabled
\* for ever without being taken.  RunSchedule is enabled exactly when the
\* thread is at "unlocked", and taking it leaves "unlocked"; its weak
\* fairness is written with that condition.
SchedAheadFair ==
  /\ WF_vars(RunLoop)
  /\ WF_vars(RunWait)
  /\ WF_vars(RunTimed)
  /\ WF_vars(RunWaitFor)
  /\ WF_vars(RunTimeout)
  /\ []<>(~(running /\ q.sched_ahead_thd = "unlocked"))

SpecWake == InitPush /\ [][NextWake]_vars /\ WF_vars(Tick) /\ SchedAheadFair


\* a client for which client_info_f returns zero reservation, weight and
\* limit, and a client with a reservation and a weight
ZeroProfile == << ClientInfo(0, 0, 0), ClientInfo(2, 1, 0) >>

\* the pull queue with a client of ZeroProfile, ages short enough for
\* do_clean to erase it, no removal
InitZero ==
  /\ \E alb \in BOOLEAN :
       /\ q = PriorityQueueBase(client_info_of(ZeroProfile), ShortAges, alb,
                                FALSE)
       /\ twin = q
  /\ removals = 0
  /\ horizon = MaxTime + 1
  /\ now = 0
  /\ clean_now = NoTime
  /\ failed = "none"
  /\ res = NoCall
  /\ tres = NoResult
  /\ enq = [c \in Clients |-> << >>]
  /\ out = [c \in Clients |-> << >>]
  /\ removed = [c \in Clients |-> {}]
  /\ born = [c \in Clients |-> [time |-> 0, tick |-> 0]]
  /\ last_add = [c \in Clients |-> NoTime]
  /\ stamps = [c \in Clients |-> << >>]

NextZero ==
  \/ Tick
  \/ \E c \in Clients, in \in Inputs : AddRequest(c, in)
  \/ PullRequest
  \/ CleanRead
  \/ CleanRun

SpecZero == InitZero /\ [][NextZero]_vars

\* a client with a reservation and no weight, and one with a weight alone
MixedProfile == << ClientInfo(2, 0, 0), ClientInfo(0, 1, 0) >>

\* the pull queue with limit break allowed, either view implementation,
\* do_clean out of range
InitBreak ==
  /\ \E profile \in Profiles \cup {MixedProfile}, uh \in BOOLEAN :
       /\ q = PriorityQueueBase(client_info_of(profile), LongAges, TRUE, uh)
       /\ twin = PriorityQueueBase(client_info_of(profile), LongAges, TRUE,
                                   FALSE)
  /\ removals = MaxRemovals
  /\ horizon = MaxTime
  /\ now = 0
  /\ clean_now = NoTime
  /\ failed = "none"
  /\ res = NoCall
  /\ tres = NoResult
  /\ enq = [c \in Clients |-> << >>]
  /\ out = [c \in Clients |-> << >>]
  /\ removed = [c \in Clients |-> {}]
  /\ born = [c \in Clients |-> [time |-> 0, tick |-> 0]]
  /\ last_add = [c \in Clients |-> NoTime]
  /\ stamps = [c \in Clients |-> << >>]

NextBreak ==
  \/ Tick
  \/ \E c \in Clients, in \in Inputs : AddRequest(c, in)
  \/ PullRequest
  \/ \E c \in Clients : RemoveByClient(c)
  \/ \E filter \in Filters, b \in BOOLEAN : RemoveByReqFilter(filter, b)

SpecBreak == InitBreak /\ [][NextBreak]_vars

\* the ClientInfo values the tag arithmetic is run with: every mix of a
\* zero and a non-zero inverse
TagInfos ==
  { ClientInfo(ri, wi, li) : ri \in {0, 2}, wi \in {0, 2}, li \in {0, 2} }

\* the (req_params, cost) values the tag arithmetic is run with
TagInputs ==
  { [params |-> [delta |-> d, rho |-> r], cost |-> k] :
      d \in {0, 2}, r \in {0, 2}, k \in {0, 1} }

\* one client's add_request calls with any of TagInputs at any time
InitTag ==
  /\ \E info \in TagInfos :
       /\ q = PriorityQueueBase(client_info_of(<< info >>), LongAges, FALSE,
                                FALSE)
       /\ twin = q
  /\ removals = 0
  /\ horizon = MaxTime
  /\ now = 0
  /\ clean_now = NoTime
  /\ failed = "none"
  /\ res = NoCall
  /\ tres = NoResult
  /\ enq = [c \in Clients |-> << >>]
  /\ out = [c \in Clients |-> << >>]
  /\ removed = [c \in Clients |-> {}]
  /\ born = [c \in Clients |-> [time |-> 0, tick |-> 0]]
  /\ last_add = [c \in Clients |-> NoTime]
  /\ stamps = [c \in Clients |-> << >>]

NextTag ==
  \/ Tick
  \/ \E in \in TagInputs : AddRequest(1, in)

SpecTag == InitTag /\ [][NextTag]_vars


\* ------------------------------------------------------------------------
\* Scenario runs of the pull queue: one client, all its requests added at
\* time 0, then pulls as the clock advances.  The time unit of these runs
\* is 0.25 s: a rate of 2 per second is an inverse of 2 units, a weight of
\* 1 an inverse of 4 units.
\* ------------------------------------------------------------------------

\* S1: r = 2, w = 0, l = 0, four requests, pulls until 1.5 s;
\* S2: r = 0, w = 1, l = 2, five requests, pulls until 2.0 s
Scenarios ==
  { [name |-> "S1", info |-> ClientInfo(2, 0, 0), requests |-> 4,
     horizon |-> 6],
    [name |-> "S2", info |-> ClientInfo(0, 4, 2), requests |-> 5,
     horizon |-> 8] }

\* idle_age, erase_age, check_time of the convenience constructors
\* (10, 15 and 6 minutes) in units of 0.25 s
ScenarioAges == [idle_age |-> 2400, erase_age |-> 3600, check_time |-> 1440]

\* the scenario the queue was built for
scenario == CHOOSE s \in Scenarios : s.info = q.client_info_f[1]

InitScenario ==
  /\ \E s \in Scenarios :
       /\ q = PriorityQueueBase([c \in Clients |-> s.info], ScenarioAges,
                                FALSE, FALSE)
       /\ twin = q
       /\ horizon = s.horizon
  /\ removals = 0
  /\ now = 0
  /\ clean_now = NoTime
  /\ failed = "none"
  /\ res = NoCall
  /\ tres = NoResult
  /\ enq = [c \in Clients |-> << >>]
  /\ out = [c \in Clients |-> << >>]
  /\ removed = [c \in Clients |-> {}]
  /\ born = [c \in Clients |-> [time |-> 0, tick |-> 0]]
  /\ last_add = [c \in Clients |-> NoTime]
  /\ stamps = [c \in Clients |-> << >>]

\* add_request for client 1 at time 0, before the first pull
ScenarioAdd ==
  /\ running
  /\ now = 0
  /\ res.op # "pull"
  /\ q.tick < scenario.requests
  /\ add_request_assert(q, 1, OwnInput.params, now, OwnInput.cost)
  /\ q' = do_add_request(q, q.tick + 1, 1, OwnInput.params, now,
                         OwnInput.cost)
  /\ twin' = q'
  /\ res' = [op |-> "add", client |-> 1, request |-> q.tick + 1]
  /\ enq' = [enq EXCEPT ![1] = Append(@, q.tick + 1)]
  /\ born' = IF 1 \in DOMAIN q.client_map THEN born
             ELSE [born EXCEPT ![1] = [time |-> now, tick |-> q.tick + 1]]
  /\ last_add' = [last_add EXCEPT ![1] = now]
  /\ UNCHANGED << now, clean_now, failed, tres, out, removed, stamps,
                  removals, horizon >>

NextScenario ==
  \/ ScenarioAdd
  \/ PullStamped
  \/ Tick

SpecScenario == InitScenario /\ [][NextScenario]_vars


\* ------------------------------------------------------------------------
\* Scenario runs with a plan of adds: client c adds plan[c].count requests
\* at time plan[c].at; the caller pulls at most once at each time, after
\* the adds of that time.
\*   S3: A (w = 1) and B (w = 2), ten requests each at t = 0, time unit
\*       0.01 s (weight inverses 100 and 50);
\*   S5: A and B with w = 1, time unit 1 s; A adds at t = 0 more requests
\*       than are pulled in the run (the scenario's 100), B one at t = 5;
\*   S6: one client with w = 1, l = 1, limit break allowed, three requests
\*       at t = 0, time unit 0.1 s (inverses 10).
\* ------------------------------------------------------------------------
\* ages with which do_clean marks a client idle within the run and erases
\* none
IdleAges == [idle_age |-> 2, erase_age |-> 10, check_time |-> 1]

\* the scenarios with a plan of adds: S3, S5, S6, and "idle", in which A
\* (w = 1/3) adds two requests at t = 0 and B (w = 1), new, adds two at
\* t = 3, do_clean running every unit of time
Plays ==
  { [name |-> "S3", allow_limit_break |-> FALSE, horizon |-> 8,
     ages  |-> ScenarioAges,
     infos |-> << ClientInfo(0, 100, 0), ClientInfo(0, 50, 0) >>,
     plan  |-> << [at |-> 0, count |-> 10], [at |-> 0, count |-> 10] >>],
    [name |-> "S5", allow_limit_break |-> FALSE, horizon |-> 6,
     ages  |-> ScenarioAges,
     infos |-> << ClientInfo(0, 1, 0), ClientInfo(0, 1, 0) >>,
     plan  |-> << [at |-> 0, count |-> 9], [at |-> 5, count |-> 1] >>],
    [name |-> "S6", allow_limit_break |-> TRUE, horizon |-> 2,
     ages  |-> ScenarioAges,
     infos |-> << ClientInfo(0, 10, 10) >>,
     plan  |-> << [at |-> 0, count |-> 3] >>],
    [name |-> "idle", allow_limit_break |-> FALSE, horizon |-> 4,
     ages  |-> IdleAges,
     infos |-> << ClientInfo(0, 3, 0), ClientInfo(0, 1, 0) >>,
     plan  |-> << [at |-> 0, count |-> 2], [at |-> 3, count |-> 2] >>] }

\* the scenario the queue was built for
play ==
  CHOOSE s \in Plays : /\ q.client_info_f = client_info_of(s.infos)
                       /\ q.allow_limit_break = s.allow_limit_break

InitPlay ==
  /\ \E s \in Plays, uh \in BOOLEAN :
       /\ constructor_assert(s.ages)
       /\ q = PriorityQueueBase(client_info_of(s.infos), s.ages,
                                s.allow_limit_break, uh)
       /\ twin = PriorityQueueBase(client_info_of(s.infos), s.ages,
                                   s.allow_limit_break, FALSE)
       /\ horizon = s.horizon
  /\ removals = 0
  /\ now = 0
  /\ clean_now = NoTime
  /\ failed = "none"
  /\ res = NoCall
  /\ tres = NoResult
  /\ enq = [c \in Clients |-> << >>]
  /\ out = [c \in Clients |-> << >>]
  /\ removed = [c \in Clients |-> {}]
  /\ born = [c \in Clients |-> [time |-> 0, tick |-> 0]]
  /\ last_add = [c \in Clients |-> NoTime]
  /\ stamps = [c \in Clients |-> << >>]

\* the callers add in runs of AddRun requests per client
AddRun == 5

\* the client that added last has finished a run of adds
run_done ==
  res.op = "add" =>
    \/ Len(enq[res.client]) % AddRun = 0
    \/ Len(enq[res.client]) = play.plan[res.client].count

\* add_request of client c as planned, before the pull of this time
PlayAdd(c) ==
  /\ running
  /\ c \in DOMAIN play.plan
  /\ now = play.plan[c].at
  /\ Len(enq[c]) < play.plan[c].count
  /\ res.op # "pull"
  /\ (res.op = "add" /\ res.client = c) \/ run_done
  /\ add_request_assert(q, c, OwnInput.params, now, OwnInput.cost)
  /\ q' = do_add_request(q, q.tick + 1, c, OwnInput.params, now,
                         OwnInput.cost)
  /\ twin' = IF q.use_heap
             THEN do_add_request(twin, q.tick + 1, c, OwnInput.params, now,
                                 OwnInput.cost)
             ELSE q'
  /\ res' = [op |-> "add", client |-> c, request |-> q.tick + 1]
  /\ enq' = [enq EXCEPT ![c] = Append(@, q.tick + 1)]
  /\ born' = IF c \in DOMAIN q.client_map THEN born
             ELSE [born EXCEPT ![c] = [time |-> now, tick |-> q.tick + 1]]
  /\ last_add' = [last_add EXCEPT ![c] = now]
  /\ UNCHANGED << now, clean_now, failed, tres, out, removed, stamps,
                  removals, horizon >>

\* the pull of this time
PlayPull == res.op # "pull" /\ PullStamped

NextPlay ==
  \/ \E c \in Clients : PlayAdd(c)
  \/ PlayPull
  \/ Tick
  \/ CleanRead
  \/ CleanRun

SpecPlay == InitPlay /\ [][NextPlay]_vars


\* ------------------------------------------------------------------------
\* Properties
\* ------------------------------------------------------------------------

\* the step is a call of pull_request that returned
Pulled == res'.op = "pull" /\ failed' = failed /\ clean_now' = clean_now

\* the step is a run of do_clean, from the lock on
Cleaned == clean_now # NoTime /\ clean_now' = NoTime

\* the payloads the client was handed out, in the order of dispatch
dispatched(c) == [i \in 1 .. Len(out[c]) |-> out[c][i].request]

\* the place of x in the sequence s
place(s, x) == CHOOSE i \in 1 .. Len(s) : s[i] = x

\* d holds elements of e, each once, in the order they have in e
is_subsequence(d, e) ==
  /\ \A i \in 1 .. Len(d) : \E j \in 1 .. Len(e) : e[j] = d[i]
  /\ \A i, j \in 1 .. Len(d) : i < j => place(e, d[i]) < place(e, d[j])

\* C1: FIFO per client.  In every reachable state, whatever calls of
\* add_request, pull_request, remove_by_client, remove_by_req_filter and
\* runs of do_clean led to it, the requests a client was handed out are a
\* subsequence of the requests it enqueued, in the same order, and while
\* nothing of the client was removed they are the first of its enqueue
\* order, none passed over.
FifoPerClient ==
  \A c \in Clients :
    /\ is_subsequence(dispatched(c), enq[c])
    /\ removed[c] = {} =>
         dispatched(c) = SubSeq(enq[c], 1, Len(out[c]))

\* a client was handed out two requests while a third one was enqueued
\* in between the two calls
FifoPerClientWitness ==
  \E c \in Clients :
    /\ Len(out[c]) >= 2
    /\ Len(enq[c]) = 3
    /\ removed[c] = {}
    /\ pending(q, c)

\* C2: Reservation phase wins.  Whenever pull_request is called in a state
\* where some client's front request has a reservation tag <= now, the call
\* returns a request with phase reservation, and it is the front request of
\* a client whose front reservation tag is the least among the clients with
\* a pending request.
ReservationPhaseWins ==
  [][(Pulled /\ \E c \in Clients :
                  pending(q, c) /\ front(q, c).reservation <= now)
       => /\ res'.result.type = "returning"
          /\ res'.result.phase = "reservation"
          /\ pending(q, res'.result.client)
          /\ res'.result.request =
               next_request(q.client_map[res'.result.client]).request
          /\ \A d \in Clients :
               pending(q, d) =>
                 front(q, res'.result.client).reservation
                   <= front(q, d).reservation]_vars

\* pull_request returned a request by reservation while another client had
\* a request pending too
ReservationPhaseWinsWitness ==
  /\ res.op = "pull"
  /\ res.result.type = "returning"
  /\ res.result.phase = "reservation"
  /\ \E d \in Clients \ {res.result.client} :
       pending(q, d) /\ front(q, d).reservation < max_tag

\* the front request of c is ready once the requests whose limit tag is
\* <= t have been made ready
ready_at(qq, c, t) ==
  pending(qq, c) /\ (front(qq, c).ready \/ front(qq, c).limit <= t)

\* the key of c in the ready view: proportion tag plus prop_delta
prop_key(qq, c) == FAdd(front(qq, c).proportion, qq.client_map[c].prop_delta)

\* C3: Proportional phase selection.  Whenever pull_request is called in a
\* state where no front request has a reservation tag <= now and some
\* client's front request is ready (after the promotion at this now) with a
\* proportion tag < max_tag, the call returns a request with phase
\* priority, and it is the front request of a client whose proportion tag
\* plus prop_delta is the least among the clients whose front is ready.
ProportionalPhaseSelection ==
  [][(/\ Pulled
      /\ \A c \in Clients :
           pending(q, c) => front(q, c).reservation > now
      /\ \E c \in Clients :
           ready_at(q, c, now) /\ front(q, c).proportion < max_tag)
       => /\ res'.result.type = "returning"
          /\ res'.result.phase = "priority"
          /\ ready_at(q, res'.result.client, now)
          /\ res'.result.request =
               next_request(q.client_map[res'.result.client]).request
          /\ \A d \in Clients :
               ready_at(q, d, now) =>
                 prop_key(q, res'.result.client) <= prop_key(q, d)]_vars

\* C4: With allow_limit_break = false (and the clock of the calls never
\* going back), a request handed out with phase priority had ready = true
\* and a limit tag <= the now of the call that handed it out.
ReadyWithinLimit ==
  (/\ ~q.allow_limit_break
   /\ res.op = "pull"
   /\ res.result.type = "returning"
   /\ res.result.phase = "priority")
    => res.tag.ready /\ res.tag.limit <= now

\* a request of a client with a limit was handed out with phase priority
\* after the clock had reached its limit tag
ReadyWithinLimitWitness ==
  /\ ~q.allow_limit_break
  /\ res.op = "pull"
  /\ res.result.type = "returning"
  /\ res.result.phase = "priority"
  /\ res.tag.limit > 0
  /\ now > 0

\* x / y rounded up, for x >= 0 and y > 0
ceil_div(x, y) == (x + y - 1) \div y

\* the clients with a limit: limit = 1 / limit_inv > 0
limited(c) == q.client_info_f[c].limit_inv > 0

\* the number of dispatches of c at a time within [a, b]
dispatches_within(c, a, b) ==
  Cardinality({ i \in 1 .. Len(stamps[c]) :
                  a <= stamps[c][i] /\ stamps[c][i] <= b })

\* the number of requests handed out to c with phase priority since its
\* client record was created
priority_dispatches(c) ==
  Cardinality({ i \in 1 .. Len(out[c]) :
                  /\ out[c][i].phase = "priority"
                  /\ out[c][i].request >= born[c].tick })

\* C5 as stated: Limit ceiling.  With allow_limit_break = false, for every
\* client with limit l > 0 and every window [a, b] of length T = b - a, at
\* most ceil(l * T) + 1 of its requests are dispatched inside the window,
\* dispatches of both phases counted (l * T = T / limit_inv).
LimitCeiling ==
  ~q.allow_limit_break =>
    \A c \in Clients :
      limited(c) =>
        \A a, b \in 0 .. now :
          a <= b =>
            dispatches_within(c, a, b)
              <= ceil_div(b - a, q.client_info_f[c].limit_inv) + 1

\* C5 as amended: with allow_limit_break = false, for every client with
\* limit l > 0 and every T >= 0, at most ceil(l * T) + 1 of its requests are
\* handed out with phase priority within the T time units that follow the
\* creation of its client record.
LimitCeilingFromCreation ==
  ~q.allow_limit_break =>
    \A c \in Clients :
      limited(c) =>
        priority_dispatches(c)
          <= ceil_div(now - born[c].time, q.client_info_f[c].limit_inv) + 1

\* a client with a limit was handed out as many requests with phase
\* priority as the ceiling allows
LimitCeilingFromCreationWitness ==
  /\ ~q.allow_limit_break
  /\ \E c \in Clients :
       /\ limited(c)
       /\ priority_dispatches(c) >= 2
       /\ priority_dispatches(c)
            = ceil_div(now - born[c].time, q.client_info_f[c].limit_inv) + 1

\* C6: Reservation floor.  A single client of reservation r > 0
\* (r = 1 / reservation_inv) always has a request pending and the caller
\* pulls whenever a request may be due.  Then at every time T, once the
\* calls at T are done, at least r * T - 1 requests have been handed out:
\* their number times reservation_inv is at least T - reservation_inv.
ReservationFloor ==
  (failed # "none" \/ pulled_out) =>
    Len(out[1]) * q.client_info_f[1].reservation_inv
      >= now - q.client_info_f[1].reservation_inv

\* C7: Heap/vector equivalence.  Under one and the same sequence of
\* add_request and pull_request calls, every pull_request of the queue built
\* with use_heap = true returns what the same call returns from the queue
\* built with use_heap = false: none, future with the same time, or
\* returning with the same client, request and phase.
HeapVectorEquivalence ==
  (q.use_heap /\ removals = MaxRemovals /\ res.op = "pull") =>
    res.result = tres

\* the three views
Views == { "resv", "ready", "limit" }

\* C8: View-top invariant.  After every add_request, pull_request,
\* remove_by_client, remove_by_req_filter and do_clean, with the heaps and
\* with the vector, the top of each of the reservation, ready and limit
\* views is a client that no other client strictly precedes under the
\* ordering of that view.
ViewTopInvariant ==
  ~views_empty(q) =>
    \A view \in Views, c \in DOMAIN q.client_map :
      ~HeapCompare(view, q.client_map[c], q.client_map[top(q, view)])

\* C9: Reservation reduction.  A call of pull_request that hands out a
\* request of client c with phase priority lowers the reservation tag of
\* every request left in the queue of c, and prev_tag.reservation of c, by
\* exactly reservation_inv of c (tags of max_tag, which a client without a
\* reservation has, stay); one that hands it out with phase reservation
\* leaves them as they are; and either leaves the reservation, proportion
\* and limit tags of every other client as they are.
ReservationReduction ==
  [][(Pulled /\ res'.result.type = "returning")
       => LET c    == res'.result.client
              old  == q.client_map[c]
              new  == q'.client_map[c]
              rest == Tail(old.requests)
              inv  == IF res'.result.phase = "priority"
                         /\ old.prev_tag.reservation < max_tag
                      THEN old.info.reservation_inv ELSE 0
          IN /\ Len(new.requests) = Len(rest)
             /\ \A i \in 1 .. Len(rest) :
                  /\ new.requests[i].request = rest[i].request
                  /\ new.requests[i].tag.reservation
                       = rest[i].tag.reservation - inv
                  /\ new.requests[i].tag.proportion = rest[i].tag.proportion
                  /\ new.requests[i].tag.limit = rest[i].tag.limit
             /\ new.prev_tag.reservation = old.prev_tag.reservation - inv
             /\ \A d \in DOMAIN q.client_map \ {c} :
                  /\ d \in DOMAIN q'.client_map
                  /\ q'.client_map[d].prev_tag = q.client_map[d].prev_tag
                  /\ Len(q'.client_map[d].requests)
                       = Len(q.client_map[d].requests)
                  /\ \A i \in 1 .. Len(q.client_map[d].requests) :
                       [q'.client_map[d].requests[i].tag
                          EXCEPT !.ready = FALSE]
                         = [q.client_map[d].requests[i].tag
                              EXCEPT !.ready = FALSE]]_vars

\* a request was handed out with phase priority to a client with a
\* reservation that has a request left
ReservationReductionWitness ==
  /\ res.op = "pull"
  /\ res.result.type = "returning"
  /\ res.result.phase = "priority"
  /\ pending(q, res.result.client)
  /\ q.client_map[res.result.client].info.reservation_inv > 0
  /\ \E d \in Clients \ {res.result.client} : pending(q, d)

\* C10: Cleaner safety.  In every run of do_clean, with erase_point and
\* idle_point as it computes them from the mark points, a client the run
\* erases has last_tick <= erase_point and a client whose idle flag the run
\* sets has last_tick <= idle_point; and a client whose last add_request is
\* less than erase_age ago is not erased, one whose last add_request is less
\* than idle_age ago does not have its idle flag set.
CleanerSafety ==
  [][Cleaned
       => LET p == clean_points(q, clean_now)
          IN \A c \in DOMAIN q.client_map :
               /\ c \notin DOMAIN q'.client_map
                    => /\ q.client_map[c].last_tick <= p.erase_point
                       /\ last_add[c] <= now - q.erase_age
               /\ (/\ c \in DOMAIN q'.client_map
                   /\ q'.client_map[c].idle
                   /\ ~q.client_map[c].idle)
                    => /\ q.client_map[c].last_tick <= p.idle_point
                       /\ last_add[c] <= now - q.idle_age]_vars

\* the step is a call remove_by_client(c, out)
RemovedByClient(c) ==
  /\ failed' = "none"
  /\ removals' = removals - 1
  /\ res'.op = "remove_by_client"
  /\ res'.client = c

\* C16: remove_by_client(id, out) for an id that is not in client_map
\* changes nothing: the client map with every queue and tag, the views and
\* the tick counter (all of q) are as before, and out receives nothing.
RemoveUnknownClientNoOp ==
  [][ \A c \in Clients \ DOMAIN q.client_map :
        RemovedByClient(c) =>
          /\ q' = q
          /\ res'.out = << >>
          /\ removed' = removed
          /\ out' = out ]_vars

\* remove_by_client was called with an id that is not in client_map
\* while another client had a request queued
RemoveUnknownClientNoOpWitness ==
  /\ failed = "none"
  /\ res.op = "remove_by_client"
  /\ res.client \notin DOMAIN q.client_map
  /\ \E d \in Clients : pending(q, d)


\* C17: remove_by_client(id, out) for a known id delivers the pending
\* requests of that client to out in queue order, leaves its queue empty,
\* keeps its record (prev_tag, prop_delta, idle, last_tick), changes no
\* other client's record, and no pull ever returns a removed request.
RemoveByClientFrame ==
  [][ /\ \A c \in DOMAIN q.client_map :
           RemovedByClient(c) =>
             /\ res'.out = payloads(q.client_map[c].requests)
             /\ DOMAIN q'.client_map = DOMAIN q.client_map
             /\ q'.client_map[c] = [q.client_map[c] EXCEPT !.requests = << >>]
             /\ \A d \in DOMAIN q.client_map \ {c} :
                  q'.client_map[d] = q.client_map[d]
      /\ \A c \in Clients :
           \A i \in 1 .. Len(out'[c]) :
             out'[c][i].request \notin removed'[c] ]_vars

\* remove_by_client took two requests from a client while another client
\* had a request queued, and a later pull handed that one out
RemoveByClientFrameWitness ==
  /\ failed = "none"
  /\ res.op = "pull"
  /\ res.result.type = "returning"
  /\ \E c \in DOMAIN q.client_map \ {res.result.client} :
       /\ Cardinality(removed[c]) >= 2
       /\ ~has_request(q.client_map[c])


\* the step is a call remove_by_req_filter(filter, out, visit_backwards)
\* that returned
RemovedByReqFilter ==
  /\ failed' = "none"
  /\ removals' = removals - 1
  /\ res'.op = "remove_by_req_filter"

\* the elements of a sequence
elements(s) == { s[i] : i \in 1 .. Len(s) }

\* C18: remove_by_req_filter(filter, out, visit_backwards) takes from the
\* queue of every client, whatever its length (empty queues included), the
\* requests that satisfy the filter and keeps the others in their order,
\* in both directions; the requests removed are the same in both
\* directions; the result is true iff a request was removed.
RemoveByReqFilterExact ==
  [][ /\ failed' # "undefined_end"
      /\ RemovedByReqFilter =>
           /\ DOMAIN q'.client_map = DOMAIN q.client_map
           /\ \A c \in DOMAIN q.client_map :
                q'.client_map[c].requests =
                  SelectSeq(q.client_map[c].requests,
                            LAMBDA r : r.request \notin res'.filter)
           /\ elements(res'.out) =
                UNION { { r \in elements(payloads(q.client_map[c].requests)) :
                            r \in res'.filter } : c \in DOMAIN q.client_map }
           /\ elements(res'.out) =
                elements(remove_by_req_filter(q, res'.filter,
                                              ~res'.visit_backwards).out)
           /\ res'.any_removed = (res'.out # << >>) ]_vars


\* the run is scenario `name`, all its requests are queued or handed out,
\* and every earlier pull time (every `step` units from 0 on) has had its
\* dispatch: the next pull is the scenario's pull at time `now`
scenario_pull(name, step) ==
  /\ scenario.name = name
  /\ Len(enq[1]) = scenario.requests
  /\ now % step = 0
  /\ stamps[1] = [i \in 1 .. now \div step |-> (i - 1) * step]

\* C19: scenario S1 (r = 2, w = 0, l = 0, four requests added at t = 0):
\* the pulls at t = 0, 0.5, 1.0 and 1.5 s (0, 2, 4, 6 units) return one
\* request each, with phase reservation.
ScenarioS1 ==
  [][ scenario_pull("S1", 2) /\ (res'.op = "pull" \/ failed' # failed) =>
        /\ failed' = "none"
        /\ res'.result.type = "returning"
        /\ res'.result.phase = "reservation" ]_vars

\* C20: scenario S2 (r = 0, w = 1, l = 2, no limit break, five requests
\* added at t = 0): the pulls at t = 0, 0.5, 1.0, 1.5 and 2.0 s (0, 2, 4,
\* 6, 8 units) return one request each, the first at t = 0, all with phase
\* priority, and every pull in between returns Future.
ScenarioS2 ==
  [][ /\ scenario_pull("S2", 2) /\ (res'.op = "pull" \/ failed' # failed) =>
           /\ failed' = "none"
           /\ res'.result.type = "returning"
           /\ res'.result.phase = "priority"
      /\ /\ scenario.name = "S2"
         /\ Len(enq[1]) = scenario.requests
         /\ now % 2 = 1
         /\ stamps[1] = [i \in 1 .. (now + 1) \div 2 |-> (i - 1) * 2]
         /\ res'.op = "pull" \/ failed' # failed
         => failed' = "none" /\ res'.result.type = "future" ]_vars


\* every planned add of the scenario has been made
all_added ==
  \A c \in DOMAIN play.plan : Len(enq[c]) = play.plan[c].count

\* the step is the pull of this time, returning or ending the process
PlayPulls == res'.op = "pull" \/ failed' # failed

\* C21: scenario S3 (A with w = 1, B with w = 2, no reservation, no limit,
\* ten requests each added at t = 0 in any order, either view
\* implementation): each of the nine pulls at t = 0, 0.01, ..., 0.08
\* returns a request, and together they dispatch 3 requests of A and 6
\* of B.
ScenarioS3 ==
  [][ /\ play.name = "S3"
      /\ all_added
      /\ Len(out[1]) + Len(out[2]) = now
      /\ PlayPulls
      => /\ failed' = "none"
         /\ res'.result.type = "returning"
         /\ now = 8 => Len(out'[1]) = 3 /\ Len(out'[2]) = 6 ]_vars


\* C22: scenario S5 (A and B with w = 1, no reservation, no limit; A adds
\* its requests at t = 0 and is pulled alone during [0, 5); B, idle, adds
\* one request at t = 5): after a pull at each of t = 0, ..., 4, the
\* first pull after B's add returns B's request, with either view
\* implementation.
ScenarioS5 ==
  [][ /\ play.name = "S5"
      /\ all_added
      /\ now = 5
      /\ Len(out[1]) = 5
      /\ PlayPulls
      => /\ failed' = "none"
         /\ res'.result.type = "returning"
         /\ res'.result.client = 2 ]_vars

\* C23: scenario S6 (one client with r = 0, w = 1, l = 1, limit break
\* allowed, three requests added at t = 0): the pulls at t = 0, 0.1 and
\* 0.2 s (0, 1, 2 units) each return one request from the ready view,
\* with phase priority; none returns Future or None.
ScenarioS6 ==
  [][ /\ play.name = "S6"
      /\ all_added
      /\ Len(out[1]) = now
      /\ PlayPulls
      => /\ failed' = "none"
         /\ res'.result.type = "returning"
         /\ res'.result.phase = "priority"
         /\ res'.result.request = enq[1][now + 1]
         /\ out' = [out EXCEPT ![1] = Append(@, [request |-> enq[1][now + 1],
                                                 phase |-> "priority"])] ]_vars

\* the third pull of S6, at t = 0.2 s, has returned the third request
ScenarioS6Witness ==
  /\ play.name = "S6"
  /\ now = 2
  /\ failed = "none"
  /\ res.op = "pull"
  /\ res.result.type = "returning"
  /\ Len(out[1]) = 3

\* the time of the add_request calls of client c in the scenario
reactivated(c) == play.plan[c].at

\* client a has not been dispatched since client b was reactivated
waiting_since(a, b) ==
  \A i \in DOMAIN stamps[a] : stamps[a][i] < reactivated(b)

\* C24: idle reactivation without monopoly.  B, idle, adds requests at
\* t = 3 while A has a request pending that no limit holds back: once B
\* has been dispatched, the next dispatch is A's unless A has been
\* dispatched since B's adds.
NonMonopoly ==
  [][ /\ play.name = "idle"
      /\ all_added
      /\ pending(q, 1)
      /\ Len(out[2]) = 1
      /\ waiting_since(1, 2)
      /\ PlayPulls
      /\ failed' = "none"
      /\ res'.result.type = "returning"
      => res'.result.client = 1 ]_vars

\* do_next_request(qq, t) gets past the reservation phase: the views are
\* not empty and the reservation view's top has no request due
past_reservation(qq, t) ==
  /\ ~views_empty(qq)
  /\ LET reserv == qq.client_map[top(qq, "resv")]
     IN ~(has_request(reserv) /\ next_request(reserv).tag.reservation <= t)

\* C25: ready promotion is complete.  Whenever do_next_request(now) gets
\* past the reservation phase, the queue its while loop leaves has every
\* front request with limit tag <= now marked ready, with the heap and
\* with the vector views, after any adds, dispatches and removals.
ReadyPromotionComplete ==
  running /\ past_reservation(q, now) =>
    \A c \in DOMAIN q.client_map :
      pending(q, c) /\ front(q, c).limit <= now =>
        front(promote_ready(q, now), c).ready

\* the step is a pull_request call that returns a request
PullReturns ==
  /\ res'.op = "pull"
  /\ failed' = "none"
  /\ res'.result.type = "returning"

\* C26: phase label.  A request delivered with phase reservation had its
\* reservation tag <= now at the dispatch decision; a request dispatched
\* under limit break (not due by reservation, not ready) is delivered
\* with phase priority.
PhaseLabel ==
  [][ PullReturns =>
        /\ res'.result.phase = "reservation" => res'.tag.reservation <= now
        /\ res'.tag.reservation > now /\ ~res'.tag.ready
             => res'.result.phase = "priority" ]_vars

\* the step is a pull_request call that returns to its caller
Pulls == res'.op = "pull" /\ failed' = "none"

\* do_next_request(qq, t) dispatches in neither the reservation nor the
\* proportional phase
no_phase_fires(qq, t) ==
  /\ past_reservation(qq, t)
  /\ LET q1     == promote_ready(qq, t)
         readys == q1.client_map[top(q1, "ready")]
     IN ~(/\ has_request(readys)
          /\ next_request(readys).tag.ready
          /\ next_request(readys).tag.proportion < max_tag)

\* the request pull_request hands out is the front request of client c,
\* with the given phase
hands_out(c, phase) ==
  /\ res'.result.client = c
  /\ res'.result.request = next_request(q.client_map[c]).request
  /\ res'.result.phase = phase

\* C27: limit break.  With allow_limit_break = true and some client with
\* a pending request, pull_request(now) returns a request; where neither
\* phase fires it is the front request of the ready view's top if that
\* has proportion < max_tag, and else that of the reservation view's top
\* if that has reservation < max_tag.
LimitBreak ==
  [][ /\ Pulls
      /\ q.allow_limit_break
      /\ \E c \in Clients : pending(q, c)
      => /\ res'.result.type = "returning"
         /\ no_phase_fires(q, now) =>
              LET q1     == promote_ready(q, now)
                  readys == top(q1, "ready")
                  reserv == top(q1, "resv")
              IN IF /\ pending(q1, readys)
                    /\ front(q1, readys).proportion < max_tag
                 THEN hands_out(readys, "priority")
                 ELSE pending(q1, reserv)
                        /\ front(q1, reserv).reservation < max_tag
                        => res'.result.client = reserv ]_vars

\* do_next_request(qq, t) dispatches nothing: no client is in the views,
\* or neither phase fires and no limit break applies
nothing_dispatched(qq, t) ==
  \/ views_empty(qq)
  \/ /\ no_phase_fires(qq, t)
     /\ LET q1     == promote_ready(qq, t)
            readys == top(q1, "ready")
            reserv == top(q1, "resv")
        IN ~(/\ qq.allow_limit_break
             /\ \/ /\ pending(q1, readys)
                   /\ front(q1, readys).proportion < max_tag
                \/ /\ pending(q1, reserv)
                   /\ front(q1, reserv).reservation < max_tag)

\* the tags the next call is computed from: the reservation tag of the
\* reservation view's top and the limit tag of the limit view's top, where
\* the top has a request and the tag is not TimeZero
next_call_tags(qq, t) ==
  IF views_empty(qq) THEN {}
  ELSE LET q1    == promote_ready(qq, t)
           r_top == top(q1, "resv")
           l_top == top(q1, "limit")
       IN { x \in { front(q1, c).reservation :
                      c \in { d \in {r_top} : pending(q1, d) } } :
              x # TimeZero }
          \cup
          { x \in { front(q1, c).limit :
                      c \in { d \in {l_top} : pending(q1, d) } } :
              x # TimeZero }

\* the step is a call of pull_request, returning or failing the assertion
\* of do_next_request
PullCalled ==
  \/ res'.op = "pull" /\ failed' = "none"
  \/ failed = "none" /\ failed' = "assert"

\* C28: future computation.  When no phase dispatches, do_next_request
\* returns future(at), at the least of the reservation view's top's front
\* reservation tag and the limit view's top's front limit tag (tops with a
\* request, tags other than TimeZero), if that is below TimeMax, and none
\* otherwise.
FutureComputation ==
  [][ PullCalled /\ nothing_dispatched(q, now) =>
        /\ failed' = "none"
        /\ LET tags == next_call_tags(q, now)
           IN IF \E x \in tags : x < TimeMax
              THEN res'.result =
                     PullReq("future", 0, 0, "none",
                             CHOOSE x \in tags : \A y \in tags : x <= y)
              ELSE res'.result = PullReq("none", 0, 0, "none", 0) ]_vars

\* the step is an add_request call that returns
Added == res'.op = "add" /\ q'.tick = q.tick + 1

\* add_request finds client c idle: c is new (a ClientRec starts idle) or
\* was marked idle by do_clean
finds_idle(c) == c \notin DOMAIN q.client_map \/ q.client_map[c].idle

\* front proportion tag + prop_delta of the non-idle clients other than c
\* that have a request
active_keys(c) ==
  { FAdd(front(q, d).proportion, q.client_map[d].prop_delta) :
      d \in { e \in DOMAIN q.client_map \ {c} :
                ~q.client_map[e].idle /\ pending(q, e) } }

\* C29: idle reactivation adjustment.  add_request at time now for an idle
\* client sets prop_delta to min_p - now, min_p the least front proportion
\* tag + prop_delta of the other non-idle clients with a request, and
\* leaves prop_delta as it was if there is none; idle becomes false, and
\* the new request's proportion tag + prop_delta is at least min_p.
IdleAdjustment ==
  [][ Added /\ finds_idle(res'.client) =>
        LET c    == res'.client
            keys == active_keys(c)
            rec  == q'.client_map[c]
            tag  == rec.requests[Len(rec.requests)].tag
        IN /\ ~rec.idle
           /\ IF keys = {}
              THEN rec.prop_delta = IF c \in DOMAIN q.client_map
                                    THEN q.client_map[c].prop_delta ELSE 0
              ELSE LET min_p == CHOOSE p \in keys : \A x \in keys : p <= x
                   IN /\ rec.prop_delta = FSub(min_p, now)
                      /\ FAdd(tag.proportion, rec.prop_delta) >= min_p ]_vars

\* the client of the first add_request (alone then, so its prop_delta
\* stayed 0) was marked idle by do_clean and has added its second request
\* while the other client had one pending: its prop_delta is set
IdleAdjustmentWitness ==
  /\ res.op = "add"
  /\ failed = "none"
  /\ born[res.client].tick = 1
  /\ Len(enq[res.client]) = 2
  /\ q.client_map[res.client].prop_delta # 0
  /\ \E d \in DOMAIN q.client_map \ {res.client} : pending(q, d)

\* the tag calculation as stated: the extreme where the reciprocal is 0,
\* else the later of the time and prev + inv * d, d the hint or 1 for a
\* hint of 0
calc(t, prev, inv, hint, high) ==
  IF inv = 0 THEN (IF high THEN max_tag ELSE min_tag)
  ELSE IF t < prev + inv * (IF hint = 0 THEN 1 ELSE hint)
  THEN prev + inv * (IF hint = 0 THEN 1 ELSE hint)
  ELSE t

\* C30: tag arithmetic.  The tag add_request gives a request at time now,
\* for params (delta, rho) and a cost, on a client with info and previous
\* tag p: reservation = cost + calc(now, p.reservation, reservation_inv,
\* rho, high), proportion = calc(now, p.proportion, weight_inv, delta,
\* high), limit = calc(now, p.limit, limit_inv, delta, low), ready false.
TagArithmetic ==
  [][ \A in \in TagInputs :
        AddRequest(1, in) /\ failed' = "none" =>
          LET p    == IF 1 \in DOMAIN q.client_map
                      THEN q.client_map[1].prev_tag ELSE ZeroTag
              info == info_of(q, 1)
              rec  == q'.client_map[1]
              tag  == rec.requests[Len(rec.requests)].tag
          IN /\ tag.reservation =
                  FAdd(in.cost, calc(now, p.reservation,
                                     info.reservation_inv, in.params.rho,
                                     TRUE))
             /\ tag.proportion = calc(now, p.proportion, info.weight_inv,
                                      in.params.delta, TRUE)
             /\ tag.limit = calc(now, p.limit, info.limit_inv,
                                 in.params.delta, FALSE)
             /\ ~tag.ready ]_vars

\* the second request of a client with all three inverses 2, added with
\* hints 2 and cost 1 right after a first one added without hints or cost
TagArithmeticWitness ==
  /\ res.op = "add"
  /\ failed = "none"
  /\ 1 \in DOMAIN q.client_map
  /\ Len(q.client_map[1].requests) = 2
  /\ LET t1 == q.client_map[1].requests[1].tag
         t2 == q.client_map[1].requests[2].tag
     IN /\ t1.reservation = 2
        /\ t2.reservation = t1.reservation + 5
        /\ t2.proportion = t1.proportion + 4
        /\ t2.limit = t1.limit + 4

\* the request client c enqueued last is the last of its queue
last_queued(c) ==
  /\ pending(q, c)
  /\ Len(enq[c]) > 0
  /\ q.client_map[c].requests[Len(q.client_map[c].requests)].request
       = enq[c][Len(enq[c])]

\* C31: prev_tag tracking.  As long as the request a client enqueued last
\* is still queued, from the return of its add_request on, the client's
\* prev_tag has the reservation, proportion and limit of that request's
\* tag, reservation reductions included.
PrevTagTracking ==
  \A c \in DOMAIN q.client_map :
    last_queued(c) =>
      LET rec == q.client_map[c]
          tag == rec.requests[Len(rec.requests)].tag
      IN /\ rec.prev_tag.reservation = tag.reservation
         /\ rec.prev_tag.proportion = tag.proportion
         /\ rec.prev_tag.limit = tag.limit

\* a pull has just handed out a request of a client with a reservation in
\* the priority phase, reducing the reservation tags of the requests it
\* still has queued, the last enqueued among them
PrevTagTrackingWitness ==
  /\ res.op = "pull"
  /\ failed = "none"
  /\ res.result.type = "returning"
  /\ res.result.phase = "priority"
  /\ q.client_map[res.result.client].info.reservation_inv > 0
  /\ last_queued(res.result.client)

\* the tag of request r in the queue of client c of qq, r queued there
queued_at(qq, c, r) ==
  /\ c \in DOMAIN qq.client_map
  /\ \E i \in DOMAIN qq.client_map[c].requests :
       qq.client_map[c].requests[i].request = r

tag_of(qq, c, r) ==
  LET reqs == qq.client_map[c].requests
  IN reqs[CHOOSE i \in DOMAIN reqs : reqs[i].request = r].tag

\* C32: ready flag monotonicity.  A request enters the queue with ready
\* false; ready turns true only in a call of do_next_request(now), for the
\* front request of its client with limit tag <= now; a ready request
\* stays ready as long as it is queued, whatever the operation.
ReadyMonotone ==
  [][ \A c \in Clients, r \in 1 .. MaxTick :
        queued_at(q', c, r) =>
          IF queued_at(q, c, r)
          THEN /\ tag_of(q, c, r).ready => tag_of(q', c, r).ready
               /\ ~tag_of(q, c, r).ready /\ tag_of(q', c, r).ready =>
                    /\ res'.op = "pull"
                    /\ tag_of(q, c, r).limit <= now
                    /\ next_request(q.client_map[c]).request = r
          ELSE ~tag_of(q', c, r).ready ]_vars

\* a request made ready by an earlier pull is still queued and ready
\* after an add_request, a removal or a run of do_clean
ReadyMonotoneWitness ==
  /\ res.op \in {"add", "remove_by_client", "remove_by_req_filter", "clean"}
  /\ failed = "none"
  /\ \E c \in DOMAIN q.client_map :
       pending(q, c) /\ front(q, c).ready

\* the clients held by a view of qq
view_members(qq, view) ==
  IF qq.use_heap
  THEN LET h == CASE view = "resv"  -> qq.resv_heap
                  [] view = "limit" -> qq.limit_heap
                  [] view = "ready" -> qq.ready_heap
       IN { h[i] : i \in DOMAIN h }
  ELSE { qq.cl_vec.data[i] : i \in DOMAIN qq.cl_vec.data }

\* the step is a run of do_clean from the lock on, returning or ending in
\* the read of the erased map node
CleanCalled ==
  /\ failed = "none"
  /\ clean_now # NoTime
  /\ clean_now' = NoTime \/ failed' = "undefined"

\* what a run of do_clean leaves of the clients it marks idle and of those
\* it erases
clean_effect ==
  /\ \A c \in clean_idled(q, clean_now) :
       /\ c \in DOMAIN q'.client_map
       /\ q'.client_map[c] = [q.client_map[c] EXCEPT !.idle = TRUE]
       /\ \A view \in Views : c \in view_members(q', view)
  /\ \A c \in clean_erased(q, clean_now) :
       /\ c \notin DOMAIN q'.client_map
       /\ \A view \in Views : c \notin view_members(q', view)
  /\ ~views_empty(q') =>
       \A view \in Views : top(q', view) \in DOMAIN q'.client_map

\* C33: cleaner lifecycle.  A run of do_clean leaves a client it marks
\* idle in the client map and in every view, its queue, prev_tag and
\* prop_delta as they were; a client it erases is afterwards in neither
\* the client map nor any view, and the tops of the views are clients of
\* the map.
CleanerLifecycle ==
  [][ CleanCalled => failed' = "none" /\ clean_effect ]_vars

\* C34: the assertion of do_next_request.  In every reachable state and at
\* every time, a call that reaches the future computation finds the front
\* request of the limit view's top, if it has one, not ready.
NextRequestAssertion ==
  running /\ ~views_empty(q) /\ nothing_dispatched(q, now) =>
    LET q1    == promote_ready(q, now)
        l_top == top(q1, "limit")
    IN pending(q1, l_top) => ~front(q1, l_top).ready

\* what pull_request(now) may return: none exactly when no client has a
\* request, else a request or a future time after now
pull_answer ==
  /\ res'.result.type = "none" <=> ~\E c \in Clients : pending(q, c)
  /\ res'.result.type = "future" => res'.result.when > now

\* C35: pull_request(now) returns None if and only if no client has a
\* pending request; with a pending request it returns a request or
\* Future(at) with at > now.
PullAnswer ==
  [][ PullCalled => failed' = "none" /\ pull_answer ]_vars

\* the number of times request r was handed out to client c
times_dispatched(c, r) ==
  Cardinality({ i \in DOMAIN out[c] : out[c][i].request = r })

\* request r of client c is queued, or was handed out once, or went to
\* the sink of a removal, and only one of the three
accounted(c, r) ==
  \/ queued_at(q, c, r) /\ times_dispatched(c, r) = 0 /\ r \notin removed[c]
  \/ ~queued_at(q, c, r) /\ times_dispatched(c, r) = 1 /\ r \notin removed[c]
  \/ ~queued_at(q, c, r) /\ times_dispatched(c, r) = 0 /\ r \in removed[c]

\* C36: no request is lost or duplicated.  After any add_request,
\* pull_request, remove_by_client, remove_by_req_filter and do_clean every
\* request accepted is queued at its client, or was handed out exactly
\* once, or was given to a removal's sink; and do_clean erases no client
\* whose queue holds a request.
NoRequestLost ==
  [][ /\ \A c \in Clients : \A i \in DOMAIN enq[c] : accounted(c, enq[c][i])
      /\ Cleaned => \A c \in clean_erased(q, clean_now) : ~pending(q, c)
    ]_vars

\* ------------------------------------------------------------------------
\* Properties of the push queue
\* ------------------------------------------------------------------------

\* the calls in which the push queue runs schedule_request
ScheduleOps == {"add_request", "request_completed", "run_sched_ahead"}

\* the step is a call that ran schedule_request
Schedules == failed' = "none" /\ res'.op \in ScheduleOps

\* the queue of c after the step begins with its queue before the step,
\* tags and ready flags included
queue_kept(c) ==
  /\ c \in DOMAIN q'.client_map
  /\ Len(q'.client_map[c].requests) >= Len(q.client_map[c].requests)
  /\ SubSeq(q'.client_map[c].requests, 1, Len(q.client_map[c].requests))
       = q.client_map[c].requests

\* C11: handle_f is called only in a call of schedule_request in which
\* can_handle_f answered true; a call of schedule_request in which it
\* answered false calls no handle_f, pops no request, sets no ready flag
\* and sets no timer target.
BackPressure ==
  [][ /\ out' # out => Schedules /\ res'.can_handle
      /\ Schedules /\ ~res'.can_handle =>
           /\ out' = out
           /\ q'.sched_ahead_when = q.sched_ahead_when
           /\ \A c \in DOMAIN q.client_map : queue_kept(c)
           /\ \A c \in DOMAIN q'.client_map :
                \A i \in 1 .. Len(q'.client_map[c].requests) :
                  q'.client_map[c].requests[i].tag.ready =>
                    /\ c \in DOMAIN q.client_map
                    /\ i <= Len(q.client_map[c].requests) ]_vars

\* a call of schedule_request found can_handle_f false while a request
\* was due by its reservation tag, and the request is still queued
BackPressureWitness ==
  /\ failed = "none"
  /\ res.op \in ScheduleOps
  /\ ~res.can_handle
  /\ \E c \in Clients :
       pending(q, c) /\ front(q, c).reservation <= now

\* a request is dispatchable at time t: the front request of some client
\* is due by its reservation tag, or is within its limit and has a
\* proportion tag (the client has a weight)
dispatchable(qq, t) ==
  \E c \in Clients :
    /\ pending(qq, c)
    /\ \/ front(qq, c).reservation <= t
       \/ front(qq, c).limit <= t /\ front(qq, c).proportion < max_tag

\* the number of calls of handle_f made in the step
handled_in_step ==
  LET RECURSIVE sum(_)
      sum(cs) == IF cs = {} THEN 0
                 ELSE LET c == CHOOSE x \in cs : TRUE
                      IN (Len(out'[c]) - Len(out[c])) + sum(cs \ {c})
  IN sum(Clients)

\* C12: a call of request_completed made when can_handle_f answers true
\* and a request is dispatchable makes exactly one call of handle_f before
\* it returns; no call of request_completed makes two.
OneHandlePerCompletion ==
  [][ /\ Schedules /\ res'.op = "request_completed" => handled_in_step <= 1
      /\ Schedules /\ res'.op = "request_completed" /\ res'.can_handle
         /\ dispatchable(q, now) => handled_in_step = 1 ]_vars

\* C13: shutdown terminates.  Once the destructor has set finishing and
\* notified the condition variable, the thread run_sched_ahead is not
\* blocked in the untimed wait: no notification comes any more, so a
\* thread blocked there never exits and join never returns.
ShutdownTerminates ==
  q.destructor = "notified" => q.sched_ahead_thd # "waiting"

\* schedule_request has set the timer target t, requests are pending,
\* can_handle_f answers true and the callers make no further call
target_set(t) ==
  /\ failed = "none"
  /\ ~calling
  /\ q.can_handle_f
  /\ q.sched_ahead_when = t
  /\ \E c \in Clients : pending(q, c)

\* run_sched_ahead has called schedule_request, which called handle_f
handed_by_timer == res.op = "run_sched_ahead" /\ Len(res.handled) = 1

zero_clients ==
  { c \in Clients : q.client_info_f[c] = ClientInfo(0, 0, 0) }

\* the request r of client c is in the queue of c
queued(c, r) ==
  /\ c \in DOMAIN q.client_map
  /\ \E i \in 1 .. Len(q.client_map[c].requests) :
       q.client_map[c].requests[i].request = r

\* C15: add_request for a client whose ClientInfo is all zero is no
\* error: the call succeeds (the assertion of RequestTag does not end the
\* process), the request is queued, it is never dispatched, and it stays
\* queued until do_clean erases the client.
ZeroClientQueued ==
  /\ failed # "assert_tag"
  /\ \A c \in zero_clients :
       /\ out[c] = << >>
       /\ \A i \in 1 .. Len(enq[c]) :
            queued(c, enq[c][i]) \/ enq[c][i] \in removed[c]


\* ------------------------------------------------------------------------
\* The push queue with its two mutexes.  data_mtx guards the queue's data,
\* sched_ahead_mtx guards sched_ahead_when.  Each is "free" or owned by a
\* thread.  The threads are the callers of add_request and
\* request_completed, the cleaner (RunEvery's thread, in do_clean) and the
\* timer (sched_ahead_thd, in run_sched_ahead).  The record of the push
\* queue gets
\*   data_mtx, sched_ahead_mtx   the owner of the mutex
\*   callers                     where each caller is:
\*                                 "out"         outside the queue
\*                                 "DataGuard"   blocked on data_mtx
\*                                 "sched_at"    in sched_at, blocked on
\*                                               sched_ahead_mtx
\*                                 "lock_guard"  in sched_at, owning it
\*                                 "return"      schedule_request is over
\*   sched_at_when               the argument of the call of sched_at
\* and sched_ahead_thd takes the values "sched_at", "lock_guard", "return"
\* too, and
\*                                 "lock"        at unique_lock l(...)
\*                                 "woken"       wait returns, blocked on
\*                                               sched_ahead_mtx
\*                                 "woken_for"   wait_for returns, ditto
\*                                 "relock"      at l.lock()
\* ------------------------------------------------------------------------

\* the threads that call add_request and request_completed
Callers == { "caller1", "caller2" }

Threads == Callers \cup { "cleaner", "timer" }

\* the push queue after construction, the timer thread started
PushLocked(client_info_f, ages, allow_limit_break, use_heap) ==
  [PushPriorityQueue(client_info_f, ages, allow_limit_break, use_heap)
     EXCEPT !.sched_ahead_thd = "lock"] @@
  [data_mtx        |-> "free",
   sched_ahead_mtx |-> "free",
   callers         |-> [t \in Callers |-> "out"],
   sched_at_when   |-> TimeZero]

\* where thread t is
where(qq, cn, t) ==
  IF t = "timer" THEN qq.sched_ahead_thd
  ELSE IF t = "cleaner"
  THEN (IF cn = NoTime THEN "out"
        ELSE IF qq.data_mtx = "cleaner" THEN "do_clean" ELSE "DataGuard")
  ELSE qq.callers[t]

\* qq with thread t (a caller or the timer) at position p
moved(qq, t, p) ==
  IF t = "timer" THEN [qq EXCEPT !.sched_ahead_thd = p]
  ELSE [qq EXCEPT !.callers[t] = p]

\* the mutex thread t is blocked on, or "none"
waits_for(qq, cn, t) ==
  LET p == where(qq, cn, t)
  IN IF p = "DataGuard" \/ (t = "timer" /\ p = "unlocked") THEN "data_mtx"
     ELSE IF p \in {"sched_at", "lock", "woken", "woken_for", "relock"}
     THEN "sched_ahead_mtx"
     ELSE "none"

\* sched_ahead_cv.notify_one(): a thread blocked in wait or wait_for
\* returns from it once it has sched_ahead_mtx again
notify_one_woken(qq) ==
  IF qq.sched_ahead_thd = "waiting"
  THEN [qq EXCEPT !.sched_ahead_thd = "woken"]
  ELSE IF qq.sched_ahead_thd = "waiting_for"
  THEN [qq EXCEPT !.sched_ahead_thd = "woken_for"]
  ELSE qq

\* the body of sched_at(when), under sched_ahead_mtx
sched_at_body(qq, when) ==
  IF TimeZero = qq.sched_ahead_when \/ when < qq.sched_ahead_when
  THEN notify_one_woken([qq EXCEPT !.sched_ahead_when = when])
  ELSE qq

\* at most LockAdds add_request calls are made on the queue with its
\* mutexes
LockAdds == 2

\* the constructor arguments the queue with its mutexes is run with: the
\* cleaner runs at every time unit
LockSetups ==
  [profile : Profiles, ages : {IdleAges}, allow_limit_break : {FALSE},
   use_heap : {FALSE}]

InitLock ==
  /\ \E s \in LockSetups :
       /\ constructor_assert(s.ages)
       /\ q = PushLocked(client_info_of(s.profile), s.ages,
                         s.allow_limit_break, s.use_heap)
       /\ twin = PriorityQueueBase(client_info_of(s.profile), s.ages,
                                   s.allow_limit_break, FALSE)
  /\ removals = 0
  /\ horizon = MaxTime
  /\ now = 0
  /\ clean_now = NoTime
  /\ failed = "none"
  /\ res = NoCall
  /\ tres = NoResult
  /\ enq = [c \in Clients |-> << >>]
  /\ out = [c \in Clients |-> << >>]
  /\ removed = [c \in Clients |-> {}]
  /\ born = [c \in Clients |-> [time |-> 0, tick |-> 0]]
  /\ last_add = [c \in Clients |-> NoTime]
  /\ stamps = [c \in Clients |-> << >>]

\* a step of thread t that changes the queue record only
lock_step(q1) ==
  /\ q' = q1
  /\ res' = NoCall
  /\ UNCHANGED << twin, now, clean_now, failed, tres, enq, out, removed, born,
                  last_add, stamps, removals, horizon >>

\* a caller enters add_request or request_completed: DataGuard g(data_mtx)
CallerEnter(t) ==
  /\ running
  /\ q.callers[t] = "out"
  /\ lock_step(moved(q, t, "DataGuard"))

\* schedule_request() of thread t, which owns data_mtx, on the queue q1 at
\* get_time() = now, up to its call of sched_at: next_request, and
\* submit_request or the call of sched_at(next.when_ready)
locked_schedule(t, op, q1) ==
  \E next \in {next_request_now(q1, now)} :
    \E stop \in IF next.assert_ok THEN {FALSE} ELSE BOOLEAN :
      IF stop THEN Abort("assert")
      ELSE
        /\ \E s \in {IF next.type = "future"
                     THEN Scheduled([moved(next.q, t, "sched_at")
                                      EXCEPT !.sched_at_when =
                                               next.when_ready],
                                    << >>, TRUE, TRUE)
                     ELSE LET d == schedule_switch(next)
                          IN Scheduled(moved(d.q, t, "return"), d.handled,
                                       FALSE, TRUE)} :
             /\ q' = s.q
             /\ out' = handle_f(s.handled)
             /\ res' = [op |-> op, thread |-> t, handled |-> s.handled,
                        timed |-> s.timed]
        /\ UNCHANGED << twin, now, clean_now, failed, tres, removed, stamps,
                        removals, horizon >>

\* add_request of caller t: it gets data_mtx, do_add_request, and
\* schedule_request up to sched_at
LockedAddRequest(t, c, in) ==
  /\ running
  /\ q.callers[t] = "DataGuard"
  /\ q.data_mtx = "free"
  /\ q.tick < LockAdds
  /\ add_request_assert(q, c, in.params, now, in.cost)
  /\ locked_schedule(t, "add_request",
       do_add_request([q EXCEPT !.data_mtx = t], q.tick + 1, c, in.params,
                      now, in.cost))
  /\ enq' = [enq EXCEPT ![c] = Append(@, q.tick + 1)]
  /\ born' = IF c \in DOMAIN q.client_map THEN born
             ELSE [born EXCEPT ![c] = [time |-> now, tick |-> q.tick + 1]]
  /\ last_add' = [last_add EXCEPT ![c] = now]

\* request_completed of caller t: it gets data_mtx, and schedule_request up
\* to sched_at
LockedRequestCompleted(t) ==
  /\ running
  /\ q.callers[t] = "DataGuard"
  /\ q.data_mtx = "free"
  /\ locked_schedule(t, "request_completed", [q EXCEPT !.data_mtx = t])
  /\ UNCHANGED << enq, born, last_add >>

\* sched_at of thread t: std::lock_guard l(sched_ahead_mtx) gets the mutex
SchedAtLock(t) ==
  /\ running
  /\ where(q, clean_now, t) = "sched_at"
  /\ q.sched_ahead_mtx = "free"
  /\ lock_step([moved(q, t, "lock_guard") EXCEPT !.sched_ahead_mtx = t])

\* sched_at of thread t: its body, and the mutex is given up
SchedAtRun(t) ==
  /\ running
  /\ where(q, clean_now, t) = "lock_guard"
  /\ lock_step([moved(sched_at_body(q, q.sched_at_when), t, "return")
                  EXCEPT !.sched_ahead_mtx = "free"])

\* the DataGuard of thread t goes out of scope: data_mtx is given up; a
\* caller returns, the timer goes on to l.lock()
DataUnlock(t) ==
  /\ running
  /\ where(q, clean_now, t) = "return"
  /\ lock_step([moved(q, t, IF t = "timer" THEN "relock" ELSE "out")
                  EXCEPT !.data_mtx = "free"])

\* run_sched_ahead gets sched_ahead_mtx: at the start, when wait or
\* wait_for returns, and at l.lock()
TimerLock ==
  /\ running
  /\ q.sched_ahead_thd \in {"lock", "woken", "woken_for", "relock"}
  /\ q.sched_ahead_mtx = "free"
  /\ lock_step([q EXCEPT !.sched_ahead_mtx = "timer",
                         !.sched_ahead_thd =
                            IF @ = "woken_for" THEN "timed" ELSE "loop"])

\* run_sched_ahead: sched_ahead_cv.wait(l) gives up the mutex and blocks
TimerWait ==
  /\ running
  /\ q.sched_ahead_thd = "wait"
  /\ lock_step([q EXCEPT !.sched_ahead_thd = "waiting",
                         !.sched_ahead_mtx = "free"])

\* TimerTimed without l.unlock(): the timer thread keeps sched_ahead_mtx
\* when it goes on to the DataGuard
TimerTimed_keeps_lock ==
  /\ running
  /\ q.sched_ahead_thd = "timed"
  /\ IF ~q.finishing /\ now < q.sched_ahead_when
     THEN lock_step([q EXCEPT !.sched_ahead_thd = "wait_for"])
     ELSE lock_step([q EXCEPT !.sched_ahead_when = TimeZero,
                              !.sched_ahead_thd =
                                 IF q.finishing THEN "exited"
                                 ELSE "unlocked"])

\* run_sched_ahead: the test of the inner while and, when it fails,
\* sched_ahead_when = TimeZero; if (finishing) return; l.unlock()
TimerTimed ==
  /\ running
  /\ q.sched_ahead_thd = "timed"
  /\ IF ~q.finishing /\ now < q.sched_ahead_when
     THEN lock_step([q EXCEPT !.sched_ahead_thd = "wait_for"])
     ELSE lock_step([q EXCEPT !.sched_ahead_when = TimeZero,
                              !.sched_ahead_thd =
                                 IF q.finishing THEN "exited" ELSE "unlocked",
                              !.sched_ahead_mtx = "free"])

\* run_sched_ahead: sched_ahead_cv.wait_for(l, microseconds) gives up the
\* mutex and blocks
TimerWaitFor ==
  /\ running
  /\ q.sched_ahead_thd = "wait_for"
  /\ lock_step([q EXCEPT !.sched_ahead_thd = "waiting_for",
                         !.sched_ahead_mtx = "free"])

\* run_sched_ahead: the time of wait_for is over
TimerTimeout ==
  /\ running
  /\ q.sched_ahead_thd = "waiting_for"
  /\ now >= q.sched_ahead_when
  /\ lock_step([q EXCEPT !.sched_ahead_thd = "woken_for"])

\* run_sched_ahead: if (!finishing) { DataGuard g(data_mtx);
\* schedule_request() up to sched_at
TimerSchedule ==
  /\ running
  /\ q.sched_ahead_thd = "unlocked"
  /\ q.data_mtx = "free"
  /\ locked_schedule("timer", "run_sched_ahead",
                     [q EXCEPT !.data_mtx = "timer"])
  /\ UNCHANGED << enq, born, last_add >>

\* do_clean: DataGuard g(data_mtx) gets the mutex
CleanLock ==
  /\ running
  /\ clean_now # NoTime
  /\ q.data_mtx = "free"
  /\ lock_step([q EXCEPT !.data_mtx = "cleaner"])

\* do_clean, the rest, and data_mtx is given up
CleanUnlock ==
  /\ running
  /\ q.data_mtx = "cleaner"
  /\ \E stop \in IF clean_erased(q, clean_now) # {}
                 THEN BOOLEAN ELSE {FALSE} :
       IF stop THEN Abort("undefined")
       ELSE
         /\ q' = [do_clean(q, clean_now) EXCEPT !.data_mtx = "free"]
         /\ clean_now' = NoTime
         /\ res' = [op |-> "clean", now |-> clean_now,
                    erased |-> clean_erased(q, clean_now),
                    idled  |-> clean_idled(q, clean_now)]
         /\ UNCHANGED << twin, now, failed, tres, enq, out, removed, born,
                         last_add, stamps, removals, horizon >>

\* the steps of run_sched_ahead with its mutexes
TimerThread ==
  \/ TimerLock
  \/ RunLoop
  \/ TimerWait
  \/ TimerTimed
  \/ TimerWaitFor
  \/ TimerTimeout
  \/ TimerSchedule

NextLock ==
  \/ Tick
  \/ \E t \in Callers : CallerEnter(t)
  \/ \E t \in Callers, c \in Clients, in \in Inputs :
       LockedAddRequest(t, c, in)
  \/ \E t \in Callers : LockedRequestCompleted(t)
  \/ \E t \in Callers \cup {"timer"} : SchedAtLock(t)
  \/ \E t \in Callers \cup {"timer"} : SchedAtRun(t)
  \/ \E t \in Callers \cup {"timer"} : DataUnlock(t)
  \/ TimerThread
  \/ CleanRead
  \/ CleanLock
  \/ CleanUnlock

SpecLock == InitLock /\ [][NextLock]_vars


\* the threads take their turns: do_clean reads the clock when it is due, a
\* thread that owns sched_ahead_mtx goes on, and a thread blocked in
\* sched_at gets sched_ahead_mtx when it stays free
LockFair ==
  /\ WF_vars(CleanRead)
  /\ WF_vars(RunLoop)
  /\ WF_vars(TimerWait)
  /\ WF_vars(TimerTimed)
  /\ WF_vars(TimerWaitFor)
  /\ \A t \in Callers \cup {"timer"} :
       WF_vars(SchedAtLock(t)) /\ WF_vars(SchedAtRun(t))

SpecLockFair == SpecLock /\ LockFair

\* ------------------------------------------------------------------------
\* Properties of the push queue's mutexes
\* ------------------------------------------------------------------------

\* the owner of mutex m
owner(m) == IF m = "data_mtx" THEN q.data_mtx ELSE q.sched_ahead_mtx

\* thread t1 is blocked on a mutex that t2 owns
blocked_by(t1, t2) ==
  /\ waits_for(q, clean_now, t1) # "none"
  /\ owner(waits_for(q, clean_now, t1)) = t2

\* no thread is blocked on a mutex it owns, no two threads are blocked on
\* each other
no_wait_cycle ==
  \A t1, t2 \in Threads : ~(blocked_by(t1, t2) /\ blocked_by(t2, t1))

\* the timer thread does not own sched_ahead_mtx when it is at the
\* DataGuard of run_sched_ahead, nor while it owns data_mtx outside sched_at
timer_unlocked ==
  (waits_for(q, clean_now, "timer") = "data_mtx"
     \/ q.sched_ahead_thd \in {"sched_at", "return"})
    => q.sched_ahead_mtx # "timer"

\* a thread is in sched_at only with data_mtx
sched_at_with_data ==
  \A t \in Callers \cup {"timer"} :
    where(q, clean_now, t) \in {"sched_at", "lock_guard"}
      => q.data_mtx = t

\* C37: the push facade is free of deadlock: in no reachable state are two
\* threads (callers of add_request / request_completed, the cleaner, the
\* timer thread) blocked on each other over data_mtx and sched_ahead_mtx;
\* the timer thread never owns sched_ahead_mtx while it acquires data_mtx;
\* and sched_at, which is called with data_mtx owned, always gets
\* sched_ahead_mtx.
PushDeadlockFree ==
  /\ [](no_wait_cycle /\ timer_unlocked /\ sched_at_with_data)
  /\ \A t \in Callers \cup {"timer"} :
       (where(q, clean_now, t) = "sched_at")
         ~> (where(q, clean_now, t) = "lock_guard")

\* a caller is in sched_at with both mutexes while the timer thread, past
\* its l.unlock(), the other caller and the cleaner are blocked on data_mtx
PushDeadlockFreeWitness ==
  /\ failed = "none"
  /\ \E t \in Callers :
       /\ q.callers[t] = "lock_guard"
       /\ q.sched_ahead_mtx = t
       /\ \A u \in Threads \ {t} : blocked_by(u, t)

=============================================================================
